---- MODULE Spec2Model ----
(***************************************************************************)
(* Content synchronisation of the launcher: sync_modpack (the differencer  *)
(* and its download step), the persisted local index (the Local Sync       *)
(* Record) and the ModpackSyncState state machine that drives them.        *)
(*                                                                         *)
(* Paths and manifest keys are sequences of path components, so that       *)
(* prefix tests, strip_prefix, join and the "assets/" rule are computed    *)
(* the way the code computes them.                                         *)
(***************************************************************************)
EXTENDS Naturals, Sequences, FiniteSets, TLC

\* ------------------------------------------------------------------ paths

\* Path::starts_with: component-wise prefix.
starts_with(path, base) ==
    /\ Len(base) <= Len(path)
    /\ SubSeq(path, 1, Len(base)) = base

\* Path::strip_prefix (only called on paths that start with base).
strip_prefix(path, base) == SubSeq(path, Len(base) + 1, Len(path))

\* runtime_config::get_minecraft_dir: one directory per modpack name.
get_minecraft_dir(modpack_name) == <<"modpacks", modpack_name>>

\* runtime_config::get_assets_dir: one asset pool shared by all modpacks.
get_assets_dir == <<"assets">>

\* build_config::get_server_base.
get_server_base == "https://server"

\* ------------------------------------------------------------- file contents

NoFile == "nofile"

\* "good" is the content the server serves for a manifest key, "bad" any other
\* content (stale, edited by the user, or a partially written download).
Contents == {"good", "bad"}

\* The content digest hash_files computes of a file.
sha1(content) == IF content = "good" THEN "h-good" ELSE "h-bad"

\* ------------------------------------------------------------------ indexes

Key_mods_a    == <<"mods", "a.jar">>
Key_config_c  == <<"config", "c.cfg">>
Key_extra_e   == <<"extra", "e.bin">>
Key_assets_y  == <<"assets", "y">>

\* Remote indexes the server may offer for modpack "A" (index.json is not
\* validated by load_remote_indexes: any lists and any keys are accepted).
\*  1: include and include_no_overwrite disjoint, every key under one of them;
\*  2: "config" listed under include and under include_no_overwrite;
\*  3: a key ("extra/e.bin") that lies under no listed directory.
RemoteA1 ==
    [modpack_name |-> "A", modpack_version |-> "v2",
     include |-> {<<"mods">>}, include_no_overwrite |-> {<<"config">>},
     objects |-> (Key_mods_a :> "h-good" @@ Key_config_c :> "h-good")]

RemoteA2 ==
    [modpack_name |-> "A", modpack_version |-> "v2",
     include |-> {<<"mods">>, <<"config">>}, include_no_overwrite |-> {<<"config">>},
     objects |-> (Key_mods_a :> "h-good" @@ Key_config_c :> "h-good")]

RemoteA3 ==
    [modpack_name |-> "A", modpack_version |-> "v2",
     include |-> {<<"mods">>}, include_no_overwrite |-> {<<"config">>},
     objects |-> (Key_mods_a :> "h-good" @@ Key_extra_e :> "h-good")]

RemoteAChoices == {RemoteA1, RemoteA2, RemoteA3}

\* The remote index of modpack "B": it lists no directory and one asset.
RemoteB ==
    [modpack_name |-> "B", modpack_version |-> "v1",
     include |-> {}, include_no_overwrite |-> {},
     objects |-> (Key_assets_y :> "h-good")]

ModpackNames == {"A", "B"}

\* ------------------------------------------------------- sync_modpack, pure

\* files::get_files_in_dir: the files that exist under dir (recursively).
get_files_in_dir(d, dir) ==
    {p \in DOMAIN d : d[p] # NoFile /\ starts_with(p, dir)}

\* The closure get_modpack_files of sync_modpack.
get_modpack_files(d, index, x) ==
    get_files_in_dir(d, get_minecraft_dir(index.modpack_name) \o x)

no_overwrite_iter(d, index) ==
    UNION {get_modpack_files(d, index, x) : x \in index.include_no_overwrite}

assets_iter(d) == get_files_in_dir(d, get_assets_dir)

abs_path_overwrite_unforced(d, index, force_overwrite) ==
    UNION {get_modpack_files(d, index, x) : x \in index.include}

\* abs_path_overwrite after the if/else on force_overwrite.
abs_path_overwrite(d, index, force_overwrite) ==
    UNION {get_modpack_files(d, index, x) : x \in index.include}
      \cup (IF force_overwrite
               THEN no_overwrite_iter(d, index) \cup assets_iter(d)
               ELSE {})

\* abs_path_no_overwrite after the if/else on force_overwrite.
abs_path_no_overwrite(d, index, force_overwrite) ==
    IF ~force_overwrite
       THEN no_overwrite_iter(d, index) \cup assets_iter(d)
       ELSE {}

\* files::hash_files on success: the digest of every path handed to it.
hash_files(d, paths) == [p \in paths |-> sha1(d[p])]

\* The relative name `file` the removal loop computes for a scanned path.
file_of_path(index, path) ==
    IF starts_with(path, get_minecraft_dir(index.modpack_name))
       THEN strip_prefix(path, get_minecraft_dir(index.modpack_name))
       ELSE <<"assets">> \o strip_prefix(path, get_assets_dir)

\* The scanned paths the removal loop hands to fs::remove_file.
orphan_paths(index, overwrite) ==
    {p \in overwrite : file_of_path(index, p) \notin DOMAIN index.objects}

\* str::starts_with("assets/") on a manifest key.
starts_with_assets(file) == Len(file) > 1 /\ file[1] = "assets"

\* The destination `path` the fetch loop computes for a manifest key.
path_of_file(index, file) ==
    IF starts_with_assets(file)
       THEN get_assets_dir \o Tail(file)
       ELSE get_minecraft_dir(index.modpack_name) \o file

\* need_download of the fetch loop (FALSE too when the entry is skipped by
\* `continue`).
need_download(index, no_overwrite, hashes, file) ==
    LET path == path_of_file(index, file) IN
    IF path \in no_overwrite
       THEN FALSE
       ELSE IF path \in DOMAIN hashes
               THEN hashes[path] # index.objects[file]
               ELSE TRUE

\* The URL pushed for a manifest key: "{server_base}/{modpack_name}/{file}".
url_of_file(index, file) == <<get_server_base, index.modpack_name>> \o file

\* The manifest keys for which the fetch loop pushes a URL and a path.
files_to_download(index, no_overwrite, hashes) ==
    {file \in DOMAIN index.objects : need_download(index, no_overwrite, hashes, file)}

\* All orders in which a HashMap may iterate over a set of keys.
Orders(S) ==
    {o \in [1..Cardinality(S) -> S] : \A i, j \in 1..Cardinality(S) : o[i] = o[j] => i = j}

urls_of_reversed(index, order) ==
    [i \in 1..Len(order) |-> url_of_file(index, order[Len(order) + 1 - i])]

\* urls and paths as pushed while iterating the keys in the order `order`.
urls_of(index, order) == [i \in 1..Len(order) |-> url_of_file(index, order[i])]
paths_of(index, order) == [i \in 1..Len(order) |-> path_of_file(index, order[i])]


\* The fetch list (as manifest keys) and the removals sync_modpack computes
\* on a directory tree d.
plan_fetch(d, index, force_overwrite) ==
    files_to_download(index,
                      abs_path_no_overwrite(d, index, force_overwrite),
                      hash_files(d, abs_path_overwrite(d, index, force_overwrite)))

plan_remove(d, index, force_overwrite) ==
    orphan_paths(index, abs_path_overwrite(d, index, force_overwrite))

\* ------------------------------------------------------------ local index

\* The index file as load_local_indexes sees it: readable JSON or not.
IndexFile(data) == [readable |-> TRUE, data |-> data]

\* load_local_indexes: the stored list, or the empty list when the file is
\* missing, unreadable or not valid JSON.
load_local_indexes(file) == IF file.readable THEN file.data ELSE <<>>

save_local_index_push_only(file, index) ==
    IndexFile(Append(load_local_indexes(file), index))

\* save_local_index when fs::write succeeds: load, retain the other names,
\* push the index, write.
save_local_index(file, index) ==
    IndexFile(Append(SelectSeq(load_local_indexes(file),
                               LAMBDA x : x.modpack_name # index.modpack_name),
                     index))

\* ModpackSyncState::is_up_to_date: the first stored index of that name, if
\* there is one, has the selected version.
is_up_to_date(indexes, selected_index) ==
    LET found == {i \in 1..Len(indexes) :
                     indexes[i].modpack_name = selected_index.modpack_name} IN
    IF found = {}
       THEN FALSE
       ELSE LET first == CHOOSE i \in found : \A j \in found : i <= j IN
            indexes[first].modpack_version = selected_index.modpack_version

\* ------------------------------------------------------------------ status

\* ModpackSyncStatus, every variant with the same fields.
Status(tag) ==
    [tag |-> tag, ignore_version |-> FALSE, force_overwrite |-> FALSE, detail |-> ""]
NotSynced == Status("NotSynced")
Synced == Status("Synced")
SyncErrorOffline == Status("SyncErrorOffline")
SyncError(detail) == [Status("SyncError") EXCEPT !.detail = detail]
Syncing(ignore_version, force_overwrite) ==
    [Status("Syncing") EXCEPT !.ignore_version = ignore_version,
                              !.force_overwrite = force_overwrite]

\* No result in the task's channel.
NoResult == Status("NoResult")

\* utils::is_connect_error.
is_connect_error(e) == e = "connect"

status_of_result_always_synced(res, e) == Synced

status_of_result_never_synced(res, e) == NotSynced

status_of_result_offline(res, e) == IF res = "Ok" THEN Synced ELSE SyncErrorOffline

\* The status the task sends for the result of the sync future.
status_of_result(res, e) ==
    IF res = "Ok"
       THEN Synced
       ELSE IF is_connect_error(e) THEN SyncErrorOffline ELSE SyncError(e)

\* UpdateResult, and the value before update was ever called.
ModpackSynced == "ModpackSynced"
ModpackNotSynced == "ModpackNotSynced"
NoUpdate == "NoUpdate"

update_returns_always_synced(taken, result) == ModpackSynced

update_returns_synced_if_taken(taken, result) ==
    IF taken THEN ModpackSynced ELSE ModpackNotSynced

\* What update returns: ModpackSynced when it took a result that is not
\* NotSynced, ModpackNotSynced otherwise.
update_returns(taken, result) ==
    IF taken /\ result # NotSynced THEN ModpackSynced ELSE ModpackNotSynced

\* ------------------------------------------------------------------- state

VARIABLES
    update_result,              \* what the last call of update returned
    disk,                       \* path -> content or NoFile
    index_file,                 \* the persisted local index (Local Sync Record)
    remote_a,                   \* the index the server offers for modpack "A"
    status,                     \* ModpackSyncState.status
    modpack_sync_task,          \* ModpackSyncState.modpack_sync_task is Some
    task_result,                \* the result waiting in the task's channel
    local_indexes,              \* ModpackSyncState.local_indexes
    modpack_sync_window_open,   \* ModpackSyncState.modpack_sync_window_open
    force_overwrite_checked,    \* ModpackSyncState.force_overwrite_checked
    cancelled,                  \* ModpackSyncState.cancellation_token is cancelled
    run,                        \* the sync_modpack future of the last spawned task
    spawned,                    \* the number of tasks spawned so far
    versions,                   \* VersionManifest.versions of the instance builder
    manifest_file,              \* the versions in the file at manifest_path
    manifest_readable,          \* that file exists, can be read and is valid JSON
    launch_ui,                  \* what LauncherApp::ui rendered below the sync panel
    progress,                   \* the shared progress object: done and total
    progress_phase,             \* the phase of the run that reports progress
    chunks,                     \* worker -> the increments it has still to make
    snapshot,                   \* the (done, total) pair the consumer read last
    builder_download_entries,   \* sync_version: the entries handed to download_files
    sync_result,                \* sync_version: its inputs, its download list, what it returned
    stream,                     \* response.bytes_stream(): the items still to come
    received,                   \* the chunks the stream has yielded so far
    bytes,                      \* the bytes appended so far (the Vec, the file)
    single_download,            \* where download_new_launcher / download_java is
    update_app,                 \* UpdateApp (the self-updater), its tasks and channels
    java_download,              \* where download_java is, and the target directory
    tg_auth,                    \* TGAuthProvider and where its authenticate is
    metadata_info               \* a VersionInfo and what get_metadata_info returned for it

vars == <<disk, index_file, remote_a, status, modpack_sync_task, task_result,
          local_indexes, modpack_sync_window_open, force_overwrite_checked,
          cancelled, run, spawned, update_result, versions, manifest_file,
          manifest_readable,
          launch_ui, progress, progress_phase, chunks, snapshot,
          builder_download_entries, sync_result, stream, received, bytes,
          single_download, update_app, java_download, tg_auth,
          metadata_info>>

\* A single-file download loop.
stream_vars == <<stream, received, bytes, single_download, update_app,
                 java_download, tg_auth, metadata_info>>

\* The shared progress object, its producers and its consumer.
progress_vars == <<progress, progress_phase, chunks, snapshot, stream_vars>>

\* The state of the instance builder.
builder_vars == <<versions, manifest_file, manifest_readable,
                  builder_download_entries, sync_result>>

\* The state of the launcher.
launcher_vars == <<disk, index_file, remote_a, status, modpack_sync_task,
                   task_result, local_indexes, modpack_sync_window_open,
                   force_overwrite_checked, cancelled, run, spawned,
                   update_result, launch_ui>>

gui_vars == <<status, modpack_sync_task, local_indexes, modpack_sync_window_open,
              force_overwrite_checked, cancelled, spawned, update_result>>

\* The files of the model: under modpack A's directory two manifest files,
\* two files no manifest lists, one file under no listed directory; in the
\* asset pool the asset of B.
P_mods_a   == <<"modpacks", "A", "mods", "a.jar">>
P_mods_o   == <<"modpacks", "A", "mods", "old.jar">>
P_config_c == <<"modpacks", "A", "config", "c.cfg">>
P_config_u == <<"modpacks", "A", "config", "user.cfg">>
P_extra_e  == <<"modpacks", "A", "extra", "e.bin">>
P_assets_y == <<"assets", "y">>

Paths == {P_mods_a, P_mods_o, P_config_c, P_config_u, P_extra_e, P_assets_y}

\* The index the server offers for a modpack name.
remote_index(name) == IF name = "A" THEN remote_a ELSE RemoteB

\* An index of the same modpack at an earlier version.
older(index) == [index EXCEPT !.modpack_version = "v1-old"]

\* No future has been spawned yet.
NoRun ==
    [phase |-> "none", index |-> RemoteB, force_overwrite |-> FALSE,
     overwrite |-> {}, no_overwrite |-> {}, hashes |-> <<>>, removed |-> {},
     urls |-> <<>>, paths |-> <<>>, entries |-> {}, entry |-> <<>>,
     error |-> "none", result |-> "none", saved |-> FALSE,
     file_before |-> IndexFile(<<>>), selected |-> "none"]

\* The future index::sync_modpack(index, force_overwrite, ..) as spawned.
new_run(index, force_overwrite) ==
    [NoRun EXCEPT !.phase = "hash", !.index = index,
                  !.force_overwrite = force_overwrite,
                  !.file_before = index_file]


\* ------------------------------------------------------------------- Init

\* At most this many sync tasks are spawned.
MaxRuns == 2

\* At most this many files exist when the launcher starts.
MaxInitialFiles == 2

\* What each file may hold when the launcher starts: a file of a manifest is
\* right or wrong, a file no manifest of its modpack lists has any content.
InitialContents(index, p) ==
    IF p = P_assets_y
       THEN {NoFile, "good"}
       ELSE IF file_of_path(index, p) \in DOMAIN index.objects
               THEN {NoFile, "good", "bad"}
               ELSE {NoFile, "bad"}

\* The directory trees the launcher may start with.
InitialDisks(index) ==
    {d \in [Paths -> Contents \cup {NoFile}] :
        /\ \A p \in Paths : d[p] \in InitialContents(index, p)
        /\ Cardinality({p \in Paths : d[p] # NoFile}) <= MaxInitialFiles}

\* The local index when the launcher starts: never synced, A synced at an
\* older version, or A and B synced at the offered versions.
InitialIndexData ==
    {<<>>, <<older(remote_a)>>, <<RemoteB, remote_a>>}

\* The directory trees of the launcher-level specification: nothing
\* installed yet, or an old jar left under mods.
LauncherDisks ==
    {[p \in Paths |-> NoFile],
     [p \in Paths |-> IF p = P_mods_o THEN "bad" ELSE NoFile]}

\* sync_version was not called.
NoSyncResult ==
    [version_metadata |-> <<>>, verified |-> {}, failure |-> "none",
     download_files_called |-> FALSE, download_entries |-> <<>>,
     returned |-> "none", paths_to_copy |-> <<>>]

\* State after ModpackSyncState::new, for any index file.
new ==
    /\ index_file \in {IndexFile(data) : data \in InitialIndexData}
    /\ status = NotSynced
    /\ modpack_sync_task = FALSE
    /\ task_result = NoResult
    /\ local_indexes = load_local_indexes(index_file)
    /\ modpack_sync_window_open = FALSE
    /\ force_overwrite_checked = FALSE
    /\ cancelled = FALSE
    /\ run = NoRun
    /\ spawned = 0
    /\ update_result = NoUpdate
    /\ versions = <<>>
    /\ manifest_file = <<>>
    /\ manifest_readable = TRUE
    /\ builder_download_entries = <<>>
    /\ sync_result = NoSyncResult
    /\ launch_ui = "none"

\* The concurrent workers that report to one progress object.
Workers == {"w1", "w2"}

\* The progress object as constructed.
NoProgress == [done |-> 0, total |-> 0]

\* UpdateApp::new: the version check is spawned, no download is, the
\* statuses are Checking and NeedDownloading. What follows `rendered` is
\* what the program did so far.
NewUpdateApp ==
    [need_update_task |-> "running", need_update_receiver |-> "empty",
     new_binary_receiver |-> "None", new_binary |-> <<>>, download_sent |-> FALSE,
     update_status |-> "Checking", download_status |-> "NeedDownloading",
     rendered |-> "none", window |-> "open",
     replaced |-> FALSE, replaced_with |-> <<>>,
     checks_processed |-> 0, downloads_spawned |-> 0,
     polled_after_spawn |-> FALSE]

\* TGAuthProvider::new: no bot name yet, authenticate not called. last is
\* the answer to the last poll request, timeouts the number of poll requests
\* that timed out in this call, intermediate_token what /login/start gave
\* and every poll request sends.
NoResponse == [send |-> "none", status |-> "none", body |-> "none"]

NoAuth ==
    [pc |-> "idle", bot_name |-> "None", calls |-> 0, timeouts |-> 0,
     intermediate_token |-> "none", last |-> NoResponse, result |-> [kind |-> "none", value |-> "none"]]

\* No VersionInfo was asked for its metadata.
NoMetadataInfo ==
    [called |-> FALSE, id |-> "none", url |-> "none", sha1 |-> "none",
     inherits_from |-> <<>>, versions_info |-> <<>>]

\* download_java was not called. lists is what the package list of each
\* archive type held when it was asked for, checked what check_java
\* answered for the Java unpacked last.
NoJavaDownload ==
    [pc |-> "idle", archive_type |-> "tar.gz", target_dir |-> "absent",
     lists |-> [t \in {"tar.gz", "zip"} |-> "none"],
     checked |-> "none", result |-> "none"]

\* No single-file download was called.
NoDownload == [fn |-> "none", pc |-> "idle", length_set |-> FALSE,
               write_failed |-> FALSE, finished |-> FALSE, result |-> "none"]

\* No worker reports progress.
no_progress ==
    /\ progress = NoProgress
    /\ progress_phase = "check"
    /\ chunks = [w \in Workers |-> <<>>]
    /\ snapshot = NoProgress
    /\ stream = <<>>
    /\ received = <<>>
    /\ bytes = <<>>
    /\ single_download = NoDownload
    /\ update_app = NewUpdateApp
    /\ java_download = NoJavaDownload
    /\ tg_auth = NoAuth
    /\ metadata_info = NoMetadataInfo

\* The launcher starts with one of a few directory trees.
Init ==
    /\ remote_a = RemoteA1
    /\ disk \in LauncherDisks
    /\ new
    /\ no_progress

\* sync_modpack is exercised on every remote index and directory tree.
InitSync ==
    /\ remote_a \in RemoteAChoices
    /\ disk \in InitialDisks(remote_a)
    /\ new
    /\ no_progress

\* ------------------------------------------------- the sync_modpack future

remove_files_skipped(d, S) == d

\* disk after fs::remove_file succeeded on every path of S.
remove_files(d, S) == [p \in DOMAIN d |-> IF p \in S THEN NoFile ELSE d[p]]

\* The future returned res (with error e): the task maps it to a status,
\* sends it and ends.
future_returns(r, res, e) ==
    /\ run' = [r EXCEPT !.phase = "finished", !.result = res, !.error = e]
    /\ task_result' = status_of_result(res, e)

\* sync_modpack from the return of hash_files to the call of download_files:
\* `?` on hash_files, the removal loop with `?` on fs::remove_file, the fetch
\* loop.
sync_modpack_check ==
    /\ run.phase = "hash"
    /\ LET index == run.index
           overwrite == abs_path_overwrite(disk, index, run.force_overwrite)
           no_overwrite == abs_path_no_overwrite(disk, index, run.force_overwrite)
           hashes == hash_files(disk, overwrite)
           orphans == orphan_paths(index, overwrite)
           scanned == [run EXCEPT !.overwrite = overwrite,
                                  !.no_overwrite = no_overwrite]
       IN
       \/ \* hash_files returns an error
          /\ future_returns(scanned, "Err", "io")
          /\ UNCHANGED disk
       \/ \* fs::remove_file fails on f after the paths of S were removed
          \E f \in orphans : \E S \in SUBSET (orphans \ {f}) :
             /\ disk' = remove_files(disk, S)
             /\ future_returns([scanned EXCEPT !.hashes = hashes, !.removed = S],
                               "Err", "io")
       \/ \* every removal succeeds; urls and paths are built in HashMap order
          \E order \in Orders(files_to_download(index, no_overwrite, hashes)) :
             /\ disk' = remove_files(disk, orphans)
             /\ run' = [scanned EXCEPT !.phase = "planned",
                                       !.hashes = hashes,
                                       !.removed = orphans,
                                       !.urls = urls_of(index, order),
                                       !.paths = paths_of(index, order)]
             /\ UNCHANGED task_result
    /\ UNCHANGED <<index_file, remote_a, gui_vars>>
    /\ UNCHANGED <<builder_vars, launch_ui, progress_vars>>

\* download_files pairs the two iterators it is given: one entry per
\* position, as long as both have one.
download_entries(urls, paths) ==
    LET n == IF Len(urls) <= Len(paths) THEN Len(urls) ELSE Len(paths) IN
    {[url |-> urls[i], path |-> paths[i]] : i \in 1..n}

\* sync_modpack calls download_files(urls.into_iter(), paths.into_iter(), ..):
\* the two lists are moved into the call.
download_files_start ==
    /\ run.phase = "planned"
    /\ run' = [run EXCEPT !.phase = "download",
                          !.urls = <<>>, !.paths = <<>>,
                          !.entries = download_entries(run.urls, run.paths),
                          !.entry = [p \in {e.path : e \in
                                        download_entries(run.urls, run.paths)}
                                     |-> "pending"]]
    /\ UNCHANGED <<disk, index_file, remote_a, task_result, gui_vars>>
    /\ UNCHANGED <<builder_vars, launch_ui, progress_vars>>

\* download_files: the entry of path p opens its destination and starts writing chunks.
download_begin(p) ==
    /\ run.phase = "download"
    /\ p \in DOMAIN run.entry
    /\ run.entry[p] = "pending"
    /\ run' = [run EXCEPT !.entry[p] = "writing"]
    /\ disk' = [disk EXCEPT ![p] = "bad"]
    /\ UNCHANGED <<index_file, remote_a, task_result, gui_vars>>
    /\ UNCHANGED <<builder_vars, launch_ui, progress_vars>>

\* download_files: the entry of path p received and wrote its last chunk.
download_finish(p) ==
    /\ run.phase = "download"
    /\ p \in DOMAIN run.entry
    /\ run.entry[p] = "writing"
    /\ run' = [run EXCEPT !.entry[p] = "ok"]
    /\ disk' = [disk EXCEPT ![p] = "good"]
    /\ UNCHANGED <<index_file, remote_a, task_result, gui_vars>>
    /\ UNCHANGED <<builder_vars, launch_ui, progress_vars>>

\* download_files: the entry of path p fails before or while writing; the
\* bytes written stay.
download_fail(p) ==
    /\ run.phase = "download"
    /\ p \in DOMAIN run.entry
    /\ run.entry[p] \in {"pending", "writing"}
    /\ run' = [run EXCEPT !.entry[p] = "failed"]
    /\ UNCHANGED <<disk, index_file, remote_a, task_result, gui_vars>>
    /\ UNCHANGED <<builder_vars, launch_ui, progress_vars>>

\* What download_files may return now: Ok once every entry was fetched, an
\* error (of a connection or of another kind) once an entry has failed.
download_files_returns(r) ==
    (IF \A p \in DOMAIN r.entry : r.entry[p] = "ok" THEN {"Ok"} ELSE {})
      \cup (IF \E p \in DOMAIN r.entry : r.entry[p] = "failed"
               THEN {"connect", "other"}
               ELSE {})

propagates_never(res) == FALSE

\* The `?` on download_files(..).await: an error ends sync_modpack.
propagates(res) == res # "Ok"

\* sync_modpack from the return of download_files: `?`, save_local_index
\* (whose write error is ignored), Ok(()).
sync_modpack_finish ==
    /\ run.phase = "download"
    /\ \E res \in download_files_returns(run) :
          IF propagates(res)
             THEN /\ future_returns(run, "Err", res)
                  /\ UNCHANGED index_file
             ELSE /\ \/ index_file' = save_local_index(index_file, run.index)
                     \/ UNCHANGED index_file
                  /\ future_returns([run EXCEPT !.saved = TRUE], "Ok", "none")
    /\ UNCHANGED <<disk, remote_a, gui_vars>>
    /\ UNCHANGED <<builder_vars, launch_ui, progress_vars>>

task_ignores_token == FALSE /\ UNCHANGED vars

\* The select! of the task: the token is cancelled before the future has
\* returned; the future is dropped where it is.
task_cancelled ==
    /\ run.phase \in {"hash", "download"}
    /\ cancelled
    /\ run' = [run EXCEPT !.phase = "finished", !.result = "Cancelled"]
    /\ task_result' = NotSynced
    /\ UNCHANGED <<disk, index_file, remote_a, gui_vars>>
    /\ UNCHANGED <<builder_vars, launch_ui, progress_vars>>


\* --------------------------------------------------------- ModpackSyncState

status_after_check_offline_too(st, indexes, selected_index, need_modpack_check, index_online) ==
    LET s1 == IF need_modpack_check THEN NotSynced ELSE st IN
    IF s1 = NotSynced /\ is_up_to_date(indexes, selected_index)
       THEN Synced
       ELSE s1

\* status after the first two `if`s of update: the reset on
\* need_modpack_check and the shortcut NotSynced -> Synced.
status_after_check(st, indexes, selected_index, need_modpack_check, index_online) ==
    LET s1 == IF need_modpack_check THEN NotSynced ELSE st IN
    IF s1 = NotSynced /\ is_up_to_date(indexes, selected_index) /\ index_online
       THEN Synced
       ELSE s1

status_before_spawn_checks_version(st, indexes, selected_index) ==
    IF is_up_to_date(indexes, selected_index) THEN Synced ELSE st

\* status after the `if !ignore_version` of update, reached when the status
\* is Syncing and no task is stored.
status_before_spawn(st, indexes, selected_index) ==
    IF ~st.ignore_version /\ is_up_to_date(indexes, selected_index)
       THEN Synced
       ELSE st

token_kept(token_cancelled) == token_cancelled

\* update stores CancellationToken::new() before it spawns the task: the
\* token of the new task is not cancelled, whatever the old one was.
fresh_token(token_cancelled) == FALSE

spawns_with_task_stored(st, task) == st.tag = "Syncing" /\ st # Synced

\* update spawns a task in this call.
spawns(st, task) == st.tag = "Syncing" /\ ~task /\ st # Synced

\* ModpackSyncState::update for one frame.
update(selected, need_modpack_check, index_online) ==
    LET selected_index == remote_index(selected)
        s2 == status_after_check(status, local_indexes, selected_index,
                                 need_modpack_check, index_online)
        s3 == IF s2.tag = "Syncing" /\ ~modpack_sync_task
                 THEN status_before_spawn(s2, local_indexes, selected_index)
                 ELSE s2
        spawn == spawns(s3, modpack_sync_task)
        \* a task spawned in this call has no result yet
        taken == modpack_sync_task /\ task_result # NoResult
    IN
    /\ IF spawn
          THEN /\ spawned < MaxRuns
               /\ spawned' = spawned + 1
               /\ run' = new_run(selected_index, s3.force_overwrite)
               /\ cancelled' = fresh_token(cancelled)
               /\ modpack_sync_task' = TRUE
               /\ status' = s3
               /\ update_result' = update_returns(FALSE, task_result)
               /\ UNCHANGED <<task_result, local_indexes, modpack_sync_window_open>>
          ELSE IF taken
          THEN /\ status' = task_result
               /\ modpack_sync_task' = FALSE
               /\ modpack_sync_window_open' = FALSE
               /\ task_result' = NoResult
               /\ local_indexes' = IF task_result = NotSynced
                                      THEN local_indexes
                                      ELSE load_local_indexes(index_file)
               \* the future is gone; what stays is how it ended and the
               \* modpack that is selected in the frame that takes its result
               /\ run' = [NoRun EXCEPT !.phase = "taken", !.result = run.result,
                                       !.selected = selected]
               /\ update_result' = update_returns(TRUE, task_result)
               /\ UNCHANGED <<cancelled, spawned>>
          ELSE /\ status' = s3
               /\ update_result' = update_returns(FALSE, task_result)
               /\ UNCHANGED <<run, cancelled, spawned, modpack_sync_task, task_result,
                              local_indexes, modpack_sync_window_open>>
    /\ UNCHANGED <<disk, index_file, remote_a, force_overwrite_checked>>
    /\ UNCHANGED <<builder_vars, launch_ui, progress_vars>>

status_if_needed_resets_flags(st) ==
    IF st = Synced THEN st ELSE Syncing(FALSE, FALSE)

\* status after ModpackSyncState::schedule_sync_if_needed.
status_if_needed(st) ==
    IF st.tag \in {"NotSynced", "SyncError", "SyncErrorOffline"}
       THEN Syncing(FALSE, FALSE)
       ELSE st

\* ModpackSyncState::schedule_sync_if_needed.
schedule_sync_if_needed ==
    /\ status' = status_if_needed(status)
    /\ UNCHANGED <<disk, index_file, remote_a, modpack_sync_task, task_result,
                   local_indexes, modpack_sync_window_open,
                   force_overwrite_checked, cancelled, run, spawned, update_result>>
    /\ UNCHANGED <<builder_vars, launch_ui, progress_vars>>

\* render_ui: the sync button of the main panel is clicked.
click_sync_button ==
    /\ IF status = NotSynced
          THEN status' = Syncing(FALSE, FALSE) /\ UNCHANGED modpack_sync_window_open
          ELSE modpack_sync_window_open' = TRUE /\ UNCHANGED status
    /\ UNCHANGED <<disk, index_file, remote_a, modpack_sync_task, task_result,
                   local_indexes, force_overwrite_checked, cancelled, run, spawned, update_result>>
    /\ UNCHANGED <<builder_vars, launch_ui, progress_vars>>

\* render_ui: the force-overwrite checkbox of the sync window is toggled.
toggle_force_overwrite ==
    /\ modpack_sync_window_open
    /\ force_overwrite_checked' = ~force_overwrite_checked
    /\ UNCHANGED <<disk, index_file, remote_a, status, modpack_sync_task,
                   task_result, local_indexes, modpack_sync_window_open,
                   cancelled, run, spawned, update_result>>
    /\ UNCHANGED <<builder_vars, launch_ui, progress_vars>>

\* render_ui: the sync button of the sync window is clicked.
click_window_sync ==
    /\ modpack_sync_window_open
    /\ status' = Syncing(TRUE, force_overwrite_checked)
    /\ UNCHANGED <<disk, index_file, remote_a, modpack_sync_task, task_result,
                   local_indexes, modpack_sync_window_open,
                   force_overwrite_checked, cancelled, run, spawned, update_result>>
    /\ UNCHANGED <<builder_vars, launch_ui, progress_vars>>

\* render_ui: the sync window is closed by the user.
close_window ==
    /\ modpack_sync_window_open
    /\ modpack_sync_window_open' = FALSE
    /\ UNCHANGED <<disk, index_file, remote_a, status, modpack_sync_task,
                   task_result, local_indexes, force_overwrite_checked,
                   cancelled, run, spawned, update_result>>
    /\ UNCHANGED <<builder_vars, launch_ui, progress_vars>>

\* ModpackSyncState::cancel_sync (the cancel button, or CancelSelected).
cancel_sync ==
    /\ cancelled' = TRUE
    /\ UNCHANGED <<disk, index_file, remote_a, status, modpack_sync_task,
                   task_result, local_indexes, modpack_sync_window_open,
                   force_overwrite_checked, run, spawned, update_result>>
    /\ UNCHANGED <<builder_vars, launch_ui, progress_vars>>

\* The launcher process is killed while a task is in flight and started
\* again: the files stay as they are, ModpackSyncState::new runs.
crash_and_restart ==
    /\ run.phase \in {"hash", "planned", "download"}
    /\ run' = [run EXCEPT !.phase = "finished", !.result = "Crashed"]
    /\ status' = NotSynced
    /\ modpack_sync_task' = FALSE
    /\ task_result' = NoResult
    /\ local_indexes' = load_local_indexes(index_file)
    /\ modpack_sync_window_open' = FALSE
    /\ force_overwrite_checked' = FALSE
    /\ cancelled' = FALSE
    /\ update_result' = NoUpdate
    /\ UNCHANGED <<disk, index_file, remote_a, spawned>>
    /\ UNCHANGED <<builder_vars, launch_ui, progress_vars>>

Next ==
    \/ \E selected \in ModpackNames, need_modpack_check, index_online \in BOOLEAN :
          update(selected, need_modpack_check, index_online)
    \/ schedule_sync_if_needed
    \/ click_sync_button
    \/ toggle_force_overwrite
    \/ click_window_sync
    \/ close_window
    \/ cancel_sync
    \/ crash_and_restart
    \/ sync_modpack_check
    \/ download_files_start
    \/ \E p \in Paths : download_begin(p)
    \/ \E p \in Paths : download_finish(p)
    \/ \E p \in Paths : download_fail(p)
    \/ sync_modpack_finish
    \/ task_cancelled

Spec == Init /\ [][Next]_vars

\* ------------------------------------------- sync_modpack called directly

\* index::sync_modpack is called for the index of a modpack with a
\* force_overwrite flag, as the task of ModpackSyncState does, once the
\* previous future is gone.
sync_modpack_call(name, force_overwrite) ==
    /\ run.phase \in {"none", "finished"}
    /\ spawned < MaxRuns
    /\ spawned' = spawned + 1
    /\ run' = new_run(remote_index(name), force_overwrite)
    /\ task_result' = NoResult
    /\ cancelled' = FALSE
    /\ UNCHANGED <<disk, index_file, remote_a, status, modpack_sync_task,
                   local_indexes, modpack_sync_window_open,
                   force_overwrite_checked, update_result>>
    /\ UNCHANGED <<builder_vars, launch_ui, progress_vars>>

NextSync ==
    \/ \E name \in ModpackNames, force_overwrite \in BOOLEAN :
          sync_modpack_call(name, force_overwrite)
    \/ cancel_sync
    \/ task_cancelled
    \/ sync_modpack_check
    \/ download_files_start
    \/ \E p \in Paths : download_begin(p)
    \/ \E p \in Paths : download_finish(p)
    \/ \E p \in Paths : download_fail(p)
    \/ sync_modpack_finish

SpecSync == InitSync /\ [][NextSync]_vars


\* --------------------------------- LauncherApp::ui below the sync panel

ready_for_launch_unless_syncing(st) == st.tag # "Syncing"

\* ModpackSyncState::ready_for_launch.
ready_for_launch(st) == st = Synced

\* What render_download_ui returns.
ForceLaunchResults == {"NotSelected", "ForceLaunchSelected", "CancelSelected"}

\* The branch LauncherApp::ui takes after the two render_ui calls: the
\* launch panel (launch_state.render_ui), the download panel
\* (launch_state.render_download_ui) or neither.
launch_branch(auth_ready, java_ready, sync_ready, index_online) ==
    IF ~auth_ready
       THEN "none"
       ELSE IF java_ready /\ (sync_ready \/ ~index_online)
               THEN "launch"
               ELSE "download"

\* The tail of one frame of LauncherApp::ui: auth_ready and java_ready are
\* what AuthState::ready_for_launch and JavaState::ready_for_launch return,
\* force_launch_result what the user did in the download panel.
render_launch(auth_ready, java_ready, index_online, force_launch_result) ==
    LET branch == launch_branch(auth_ready, java_ready,
                                ready_for_launch(status), index_online)
        result == IF branch = "download" THEN force_launch_result ELSE "NotSelected"
    IN
    /\ force_launch_result # "NotSelected" => branch = "download"
    /\ launch_ui' = branch
    /\ status' = IF result = "ForceLaunchSelected"
                    THEN status_if_needed(status)
                    ELSE status
    /\ cancelled' = (cancelled \/ result = "CancelSelected")
    /\ UNCHANGED <<disk, index_file, remote_a, modpack_sync_task, task_result,
                   local_indexes, modpack_sync_window_open,
                   force_overwrite_checked, run, spawned, update_result>>
    /\ UNCHANGED <<builder_vars, progress_vars>>

\* The launcher starts with an old jar under mods and with modpack A
\* recorded at the version the server offers.
InitLaunch ==
    /\ Init
    /\ disk[P_mods_o] # NoFile
    /\ index_file = IndexFile(<<RemoteB, remote_a>>)

\* The frames of LauncherApp::ui with the task of ModpackSyncState.
NextLaunch ==
    \/ \E selected \in ModpackNames, need_modpack_check, index_online \in BOOLEAN :
          update(selected, need_modpack_check, index_online)
    \/ \E auth_ready, java_ready, index_online \in BOOLEAN :
          \E force_launch_result \in ForceLaunchResults :
             render_launch(auth_ready, java_ready, index_online, force_launch_result)
    \/ click_sync_button
    \/ click_window_sync
    \/ cancel_sync
    \/ sync_modpack_check
    \/ download_files_start
    \/ \E p \in Paths : download_begin(p)
    \/ \E p \in Paths : download_finish(p)
    \/ \E p \in Paths : download_fail(p)
    \/ sync_modpack_finish
    \/ task_cancelled

SpecLaunch == InitLaunch /\ [][NextLaunch]_vars


\* ------------------------------------------------ the progress object

\* Each worker makes at most this many increments in one phase.
MaxChunks == 2

\* The sizes of the increments.
ChunkSizes == {1, 2}

\* The increments one worker makes in one phase.
ChunkLists == UNION {[1..n -> ChunkSizes] : n \in 0..MaxChunks}

RECURSIVE SumSeq(_)
SumSeq(s) == IF s = <<>> THEN 0 ELSE Head(s) + SumSeq(Tail(s))

RECURSIVE SumOver(_, _)
\* The sum of the increments the workers of W have still to make.
SumOver(ch, W) ==
    IF W = {}
       THEN 0
       ELSE LET w == CHOOSE x \in W : TRUE
            IN SumSeq(ch[w]) + SumOver(ch, W \ {w})

\* ProgressBar::set_length.
set_length(bar, total) == [bar EXCEPT !.total = total]

inc_stores(bar, n) == [bar EXCEPT !.done = n]

\* ProgressBar::inc: one atomic addition.
inc(bar, n) == [bar EXCEPT !.done = @ + n]

\* ProgressBar::reset: a new phase, both values zero.
reset(bar) == [bar EXCEPT !.done = 0, !.total = 0]

\* The phase starts: the work is split among the workers and its total
\* size is announced.
progress_set_length ==
    /\ progress_phase \in {"check", "download"}
    /\ \E ch \in [Workers -> ChunkLists] :
          /\ chunks' = ch
          /\ progress' = set_length(progress, SumOver(ch, Workers))
    /\ progress_phase' = IF progress_phase = "check" THEN "checking" ELSE "downloading"
    /\ UNCHANGED snapshot
    /\ UNCHANGED stream_vars
    /\ UNCHANGED <<launcher_vars, builder_vars>>

\* Worker w has processed one unit (a file hashed, a chunk written) and
\* reports it.
progress_inc(w) ==
    /\ progress_phase \in {"checking", "downloading"}
    /\ chunks[w] # <<>>
    /\ progress' = inc(progress, Head(chunks[w]))
    /\ chunks' = [chunks EXCEPT ![w] = Tail(@)]
    /\ UNCHANGED <<progress_phase, snapshot>>
    /\ UNCHANGED stream_vars
    /\ UNCHANGED <<launcher_vars, builder_vars>>

\* Every file was checked: the progress is reset for the download phase.
progress_reset ==
    /\ progress_phase = "checking"
    /\ \A w \in Workers : chunks[w] = <<>>
    /\ progress' = reset(progress)
    /\ progress_phase' = "download"
    /\ UNCHANGED <<chunks, snapshot>>
    /\ UNCHANGED stream_vars
    /\ UNCHANGED <<launcher_vars, builder_vars>>

\* The consumer (the panel or the terminal) reads the pair it shows.
progress_render ==
    /\ snapshot' = progress
    /\ UNCHANGED <<progress, progress_phase, chunks>>
    /\ UNCHANGED stream_vars
    /\ UNCHANGED <<launcher_vars, builder_vars>>

\* A run is about to report its progress.
InitProgress ==
    /\ remote_a = RemoteA1
    /\ disk = [p \in Paths |-> NoFile]
    /\ new
    /\ index_file = IndexFile(<<>>)
    /\ no_progress

NextProgress ==
    \/ progress_set_length
    \/ \E w \in Workers : progress_inc(w)
    \/ progress_reset
    \/ progress_render

SpecProgress == InitProgress /\ [][NextProgress]_vars

\* index::sync_modpack between hash_files and download_files: the message
\* is set, the progress object is left as the checking phase left it.
progress_set_message ==
    /\ progress_phase = "checking"
    /\ \A w \in Workers : chunks[w] = <<>>
    /\ progress_phase' = "download"
    /\ UNCHANGED <<progress, chunks, snapshot>>
    /\ UNCHANGED stream_vars
    /\ UNCHANGED <<launcher_vars, builder_vars>>

\* ModpackSyncState::update resets the progress object before it spawns
\* the next task.
progress_new_task ==
    /\ progress_phase = "downloading"
    /\ \A w \in Workers : chunks[w] = <<>>
    /\ progress' = reset(progress)
    /\ progress_phase' = "check"
    /\ UNCHANGED <<chunks, snapshot>>
    /\ UNCHANGED stream_vars
    /\ UNCHANGED <<launcher_vars, builder_vars>>

\* The progress object in the runs of the builder (sync_version) and of
\* the launcher (sync_modpack, task after task).
NextPhases ==
    \/ NextProgress
    \/ progress_set_message
    \/ progress_new_task

SpecPhases == InitProgress /\ [][NextPhases]_vars


\* ------------------------------------------ the single-file download loops

\* download_new_launcher collects the body in a Vec, download_java writes
\* it to a file.
DownloadFns == {"download_new_launcher", "download_java"}

Bytes == {0, 1}

\* The chunks a body stream yields.
Chunks == UNION {[1..n -> Bytes] : n \in ChunkSizes}

\* The item of a stream that is an Err: no chunk is empty, the empty item
\* stands for it.
StreamError == <<>>

\* The bodies a response streams: chunks, and possibly an error that ends
\* them.
Streams ==
    LET oks == UNION {[1..n -> Chunks] : n \in 0..MaxChunks}
    IN oks \cup {Append(items, StreamError) : items \in oks}

RECURSIVE Flatten(_)
\* The bytes of a list of chunks, in order.
Flatten(cs) == IF cs = <<>> THEN <<>> ELSE Head(cs) \o Flatten(Tail(cs))

\* The chunks of a body.
chunks_of(items) == SelectSeq(items, LAMBDA item : item # StreamError)

\* response.content_length().unwrap_or(0): the size the server announced,
\* 0 when it announced none.
content_lengths(items) == {0, Len(Flatten(chunks_of(items)))}

IsPrefix(a, b) == Len(a) <= Len(b) /\ SubSeq(b, 1, Len(a)) = a

extend_reversed(v, chunk) == chunk \o v

\* Vec::extend_from_slice, and File::write_all that succeeded: the chunk
\* goes after what is there.
extend_from_slice(v, chunk) == v \o chunk

\* The function is called: the request fails and the error is returned, or
\* the response arrives, set_length is called with its content length and
\* the body stream is opened.
download_call(fn, items, total_size) ==
    /\ single_download.pc = "idle"
    /\ \/ /\ single_download' = [single_download EXCEPT
                                   !.fn = fn, !.pc = "returned", !.result = "Err"]
          /\ UNCHANGED <<progress, stream>>
       \/ /\ single_download' = [single_download EXCEPT
                                   !.fn = fn, !.pc = "streaming", !.length_set = TRUE]
          /\ progress' = set_length(progress, total_size)
          /\ stream' = items
    /\ UNCHANGED <<received, bytes, progress_phase, chunks, snapshot>>
    /\ UNCHANGED <<launcher_vars, builder_vars, update_app, java_download,
                   tg_auth, metadata_info>>

\* One turn of the loop: stream.next() yields a chunk, the chunk is
\* appended, inc is called with its length.
stream_next_chunk ==
    /\ single_download.pc = "streaming"
    /\ stream # <<>>
    /\ Head(stream) # StreamError
    /\ stream' = Tail(stream)
    /\ received' = Append(received, Head(stream))
    /\ bytes' = extend_from_slice(bytes, Head(stream))
    /\ progress' = inc(progress, Len(Head(stream)))
    /\ UNCHANGED <<single_download, progress_phase, chunks, snapshot>>
    /\ UNCHANGED <<launcher_vars, builder_vars, update_app, java_download,
                   tg_auth, metadata_info>>

\* download_java: stream.next() yields a chunk and file.write_all fails
\* after it wrote a part of it; `?` returns the error before inc.
write_all_fails ==
    /\ single_download.pc = "streaming"
    /\ single_download.fn = "download_java"
    /\ stream # <<>>
    /\ Head(stream) # StreamError
    /\ stream' = Tail(stream)
    /\ received' = Append(received, Head(stream))
    /\ \E n \in 0..(Len(Head(stream)) - 1) :
          bytes' = bytes \o SubSeq(Head(stream), 1, n)
    /\ single_download' = [single_download EXCEPT
                             !.pc = "returned", !.result = "Err",
                             !.write_failed = TRUE]
    /\ UNCHANGED <<progress, progress_phase, chunks, snapshot>>
    /\ UNCHANGED <<launcher_vars, builder_vars, update_app, java_download,
                   tg_auth, metadata_info>>

\* stream.next() yields an error: `chunk?` returns it.
stream_next_error ==
    /\ single_download.pc = "streaming"
    /\ stream # <<>>
    /\ Head(stream) = StreamError
    /\ stream' = Tail(stream)
    /\ single_download' = [single_download EXCEPT !.pc = "returned", !.result = "Err"]
    /\ UNCHANGED <<received, bytes, progress, progress_phase, chunks, snapshot>>
    /\ UNCHANGED <<launcher_vars, builder_vars, update_app, java_download,
                   tg_auth, metadata_info>>

\* stream.next() yields None: the loop ends and finish is called;
\* download_new_launcher returns Ok(bytes), download_java goes on to unpack
\* the archive.
stream_end ==
    /\ single_download.pc = "streaming"
    /\ stream = <<>>
    /\ single_download' = [single_download EXCEPT
                             !.pc = "after_loop", !.finished = TRUE,
                             !.result = IF single_download.fn = "download_new_launcher"
                                           THEN "Ok"
                                           ELSE "none"]
    /\ UNCHANGED <<stream, received, bytes, progress, progress_phase, chunks, snapshot>>
    /\ UNCHANGED <<launcher_vars, builder_vars, update_app, java_download,
                   tg_auth, metadata_info>>

NextDownload ==
    \/ \E fn \in DownloadFns : \E items \in Streams :
          \E total_size \in content_lengths(items) :
             download_call(fn, items, total_size)
    \/ stream_next_chunk
    \/ write_all_fails
    \/ stream_next_error
    \/ stream_end

SpecDownload == InitProgress /\ [][NextDownload]_vars


\* ------------------------------------------------------ the self-updater

\* What need_update answers, as the task of UpdateApp::new sends it.
UpdateAnswers == {"NeedUpdate", "UpToDate", "Error"}

\* What replace_binary_and_launch does: it replaces the binary, starts it
\* and exits; or it fails before the binary is replaced; or it fails after
\* (the temporary file is not removed, the new process is not started).
ReplaceResults == {"Ok", "ErrBefore", "ErrAfter"}

download_status_always_downloaded(result) == "Downloaded"

\* The message the download task sends for what download_new_binary
\* returned.
download_status_of(result) == IF result = "Ok" THEN "Downloaded" ELSE "Error"

polls_always(new_binary_receiver) == TRUE

\* ui polls the version-check channel only while no download was spawned.
polls_version_check(new_binary_receiver) == new_binary_receiver = "None"

\* The task of UpdateApp::new: need_update returns and its answer is sent.
need_update_returns(answer) ==
    /\ update_app.need_update_task = "running"
    /\ update_app' = [update_app EXCEPT !.need_update_task = "ended",
                                        !.need_update_receiver = answer]
    /\ UNCHANGED <<progress, progress_phase, chunks, snapshot,
                   stream, received, bytes, single_download, java_download,
                   tg_auth, metadata_info>>
    /\ UNCHANGED <<launcher_vars, builder_vars>>

\* The download task, once spawned, calls download_new_binary.
updater_download_call ==
    /\ update_app.new_binary_receiver # "None"
    /\ \E items \in Streams : \E total_size \in content_lengths(items) :
          download_call("download_new_launcher", items, total_size)

\* The download task sends what download_new_binary returned: the bytes, or
\* the error (the bytes received so far are dropped with the function's
\* Vec).
download_task_sends ==
    /\ update_app.new_binary_receiver # "None"
    /\ ~update_app.download_sent
    /\ single_download.pc \in {"returned", "after_loop"}
    /\ update_app' =
          [update_app EXCEPT
             !.download_sent = TRUE,
             !.new_binary_receiver = download_status_of(single_download.result),
             !.new_binary = IF download_status_of(single_download.result) = "Downloaded"
                               THEN bytes
                               ELSE <<>>]
    /\ UNCHANGED <<progress, progress_phase, chunks, snapshot,
                   stream, received, bytes, single_download, java_download,
                   tg_auth, metadata_info>>
    /\ UNCHANGED <<launcher_vars, builder_vars>>

\* What the second match of ui shows.
updater_rendered(update_status, download_status) ==
    IF update_status = "Checking" THEN "checking"
    ELSE IF update_status = "Error" THEN "check_error_and_close_button"
    ELSE IF update_status = "UpToDate" THEN "nothing"
    ELSE IF download_status = "NeedDownloading" THEN "progress_bar"
    ELSE IF download_status = "Error" THEN "download_error_and_close_button"
    ELSE "nothing"

\* One frame of UpdateApp::ui; replace_result is what
\* replace_binary_and_launch does if the frame calls it.
updater_ui(replace_result) ==
    LET app == update_app
        with_download == app.new_binary_receiver # "None"
        message == IF app.new_binary_receiver \in {"Downloaded", "Error"}
                      THEN app.new_binary_receiver
                      ELSE "none"
        polls == polls_version_check(app.new_binary_receiver)
        answer == IF polls THEN app.need_update_receiver ELSE "empty"
        replaces == message = "Downloaded" /\ replace_result # "ErrBefore"
        exits == message = "Downloaded" /\ replace_result = "Ok"
        \* first branch: the download channel
        a1 == [app EXCEPT
                 !.new_binary_receiver = IF message # "none" THEN "drained" ELSE @,
                 !.new_binary = IF message # "none" THEN <<>> ELSE @,
                 !.replaced = @ \/ replaces,
                 !.replaced_with = IF replaces THEN app.new_binary ELSE @,
                 !.download_status =
                     IF message = "Error" \/ (message = "Downloaded" /\ ~exits)
                        THEN "Error"
                        ELSE @,
                 !.window = IF exits THEN "exited" ELSE @]
        \* second branch: the version-check channel
        a2 == [a1 EXCEPT
                 !.polled_after_spawn = @ \/ (polls /\ with_download),
                 !.need_update_receiver = IF polls THEN "empty" ELSE @,
                 !.checks_processed = IF answer # "empty" THEN @ + 1 ELSE @,
                 !.new_binary_receiver = IF answer = "NeedUpdate" THEN "empty" ELSE @,
                 !.downloads_spawned = IF answer = "NeedUpdate" THEN @ + 1 ELSE @,
                 !.window = IF answer = "UpToDate" THEN "closed" ELSE @,
                 !.update_status = IF answer # "empty" THEN answer ELSE @]
    IN
    /\ app.window = "open"
    /\ replace_result # "Ok" => message = "Downloaded"
    /\ update_app' =
          [a2 EXCEPT !.rendered = IF exits
                                     THEN app.rendered
                                     ELSE updater_rendered(a2.update_status,
                                                           a2.download_status)]
    /\ UNCHANGED <<progress, progress_phase, chunks, snapshot,
                   stream, received, bytes, single_download, java_download,
                   tg_auth, metadata_info>>
    /\ UNCHANGED <<launcher_vars, builder_vars>>

\* render_close_button: the proceed-to-launcher button is clicked.
updater_close_button ==
    /\ update_app.window = "open"
    /\ update_app.rendered \in {"check_error_and_close_button",
                                "download_error_and_close_button"}
    /\ update_app' = [update_app EXCEPT !.window = "closed"]
    /\ UNCHANGED <<progress, progress_phase, chunks, snapshot,
                   stream, received, bytes, single_download, java_download,
                   tg_auth, metadata_info>>
    /\ UNCHANGED <<launcher_vars, builder_vars>>

NextUpdater ==
    \/ \E answer \in UpdateAnswers : need_update_returns(answer)
    \/ \E replace_result \in ReplaceResults : updater_ui(replace_result)
    \/ updater_close_button
    \/ updater_download_call
    \/ stream_next_chunk
    \/ stream_next_error
    \/ stream_end
    \/ download_task_sends

SpecUpdater == InitProgress /\ [][NextUpdater]_vars


\* ---------------------------------------------------------- download_java

\* What the request for the package list of one archive type gives: a list
\* with no package, a list with one, or an error (of the request, of the
\* JSON, of the fields).
ListAnswers == {"empty", "some", "error"}

\* What happens from the end of the download loop on: remove_dir_all of the
\* existing target fails; the archive cannot be unpacked or renamed;
\* check_java says no; check_java says yes and get_installation finds
\* nothing; get_installation returns the installation.
UnpackOutcomes == {"remove_fails", "unpack_fails", "check_fails",
                   "no_installation", "installation"}

java_result_unchecked(check_ok, installation_found) ==
    IF installation_found THEN "Ok" ELSE "next"

\* The end of one turn of the loop over the archive types: the error of a
\* failed check, the installation, or the next turn.
java_result(check_ok, installation_found) ==
    IF ~check_ok
       THEN "InvalidDownloadedJava"
       ELSE IF installation_found THEN "Ok" ELSE "next"

\* download_java after the last turn, or the next turn.
java_after_turn(java) ==
    IF java.archive_type = "tar.gz"
       THEN [java EXCEPT !.pc = "list", !.archive_type = "zip"]
       ELSE [java EXCEPT !.pc = "returned", !.result = "NoJavaVersionsAvailable"]

\* download_java is called; a Java may be installed in the target
\* directory.
java_call(existing) ==
    /\ java_download.pc = "idle"
    /\ single_download.pc = "idle"
    /\ java_download' = [java_download EXCEPT
                           !.pc = "list",
                           !.target_dir = IF existing THEN "existing" ELSE "absent"]
    /\ UNCHANGED <<progress, progress_phase, chunks, snapshot,
                   stream, received, bytes, single_download, update_app,
                   tg_auth, metadata_info>>
    /\ UNCHANGED <<launcher_vars, builder_vars>>

\* One turn up to the download: the package list is asked for; an empty
\* list ends the turn, an error ends the function.
java_versions(answer) ==
    LET asked == [java_download EXCEPT !.lists[java_download.archive_type] = answer]
    IN
    /\ java_download.pc = "list"
    /\ java_download' =
          IF answer = "error"
             THEN [asked EXCEPT !.pc = "returned", !.result = "Err"]
             ELSE IF answer = "empty"
                     THEN java_after_turn(asked)
                     ELSE [asked EXCEPT !.pc = "download"]
    \* the loop of a new turn starts on a new response and a new file
    /\ single_download' = NoDownload
    /\ stream' = <<>>
    /\ received' = <<>>
    /\ bytes' = <<>>
    /\ UNCHANGED <<progress, progress_phase, chunks, snapshot, update_app,
                   tg_auth, metadata_info>>
    /\ UNCHANGED <<launcher_vars, builder_vars>>

\* The archive is requested and the download loop starts.
java_download_call ==
    /\ java_download.pc = "download"
    /\ \E items \in Streams : \E total_size \in content_lengths(items) :
          download_call("download_java", items, total_size)

\* The request, a chunk or a write failed: `?` returns the error.
java_download_failed ==
    /\ java_download.pc = "download"
    /\ single_download.pc = "returned"
    /\ java_download' = [java_download EXCEPT !.pc = "returned", !.result = "Err"]
    /\ UNCHANGED <<progress, progress_phase, chunks, snapshot,
                   stream, received, bytes, single_download, update_app,
                   tg_auth, metadata_info>>
    /\ UNCHANGED <<launcher_vars, builder_vars>>

\* The turn from the end of the download loop: the target directory is
\* removed if it exists, the archive is unpacked and renamed to it, the
\* Java there is checked.
java_unpack(outcome) ==
    LET java == java_download
        check_ok == outcome \in {"no_installation", "installation"}
        ended == java_result(check_ok, outcome = "installation")
        unpacked == [java EXCEPT !.target_dir = "unpacked",
                                 !.checked = IF check_ok THEN "passed" ELSE "failed"]
    IN
    /\ java.pc = "download"
    /\ single_download.pc = "after_loop"
    /\ outcome = "remove_fails" => java.target_dir # "absent"
    /\ java_download' =
          IF outcome = "remove_fails"
             THEN [java EXCEPT !.pc = "returned", !.result = "Err",
                               !.target_dir = "partly_removed"]
             ELSE IF outcome = "unpack_fails"
                     THEN [java EXCEPT !.pc = "returned", !.result = "Err",
                                       !.target_dir = "absent"]
                     ELSE IF ended = "next"
                             THEN java_after_turn(unpacked)
                             ELSE [unpacked EXCEPT !.pc = "returned", !.result = ended]
    /\ UNCHANGED <<progress, progress_phase, chunks, snapshot,
                   stream, received, bytes, single_download, update_app,
                   tg_auth, metadata_info>>
    /\ UNCHANGED <<launcher_vars, builder_vars>>

NextJava ==
    \/ \E existing \in BOOLEAN : java_call(existing)
    \/ \E answer \in ListAnswers : java_versions(answer)
    \/ java_download_call
    \/ stream_next_chunk
    \/ write_all_fails
    \/ stream_next_error
    \/ stream_end
    \/ java_download_failed
    \/ \E outcome \in UnpackOutcomes : java_unpack(outcome)

SpecJava == InitProgress /\ [][NextJava]_vars


\* ------------------------------------------- TGAuthProvider::authenticate

MaxTimeouts == 3

AccessTokens == {"token_1", "token_2"}

IntermediateTokens == {"intermediate_1", "intermediate_2"}

\* The bodies a server can answer a poll with: text that is no JSON object,
\* an object without "user", a user without a string "access_token", a user
\* with one; "unreadable" is a body whose read (text()) fails.
PollBodies == {"unreadable", "not_json", "no_user", "no_access_token"}
                 \cup AccessTokens

\* The answers to one poll request: send() fails with a timeout or with
\* another error, or gives a response with a status and a body.
PollResponses ==
    {[send |-> e, status |-> "none", body |-> "none"] : e \in {"timeout", "connect"}}
      \cup {[send |-> "Ok", status |-> "failure", body |-> "none"]}
      \cup {[send |-> "Ok", status |-> "success", body |-> b] : b \in PollBodies}

\* reqwest::Error::is_timeout
is_timeout(e) == e = "timeout"

Ok(value) == [kind |-> "Ok", value |-> value]

Err(e) == [kind |-> "Err", value |-> e]

Panic(at) == [kind |-> "panic", value |-> at]

\* The chain of unwrap from serde_json::from_str to to_string.
access_token_of(body) ==
    IF body \in AccessTokens THEN Ok(body) ELSE Panic(body)

\* One turn of the poll loop: "continue" after the sleep, or how
\* authenticate ends.
poll_turn(response) ==
    IF response.send # "Ok"
       THEN IF is_timeout(response.send)
               THEN [kind |-> "continue", value |-> "none"]
               ELSE Err(response.send)
       ELSE IF response.status # "success"
               THEN Err("status")
               ELSE IF response.body = "unreadable"
                       THEN Err("body")
                       ELSE access_token_of(response.body)

tg_ended(auth, result) ==
    [auth EXCEPT !.pc = IF result.kind = "panic" THEN "panicked" ELSE "returned",
                 !.result = result]

\* authenticate is called: get_bot_name asks /info when no name is stored.
tg_authenticate(info) ==
    /\ tg_auth.pc \in {"idle", "returned"}
    /\ tg_auth.calls < MaxRuns
    /\ LET called == [tg_auth EXCEPT !.calls = @ + 1, !.timeouts = 0,
                                     !.intermediate_token = "none",
                                     !.last = NoResponse,
                                     !.result = NoAuth.result]
       IN tg_auth' =
            IF tg_auth.bot_name # "None"
               THEN [called EXCEPT !.pc = "start"]
               ELSE CASE info = "error" -> tg_ended(called, Err("info"))
                      [] info = "not_json" -> tg_ended(called, Panic("info"))
                      [] OTHER -> [called EXCEPT !.pc = "start", !.bot_name = "Some"]
    /\ UNCHANGED <<progress, progress_phase, chunks, snapshot,
                   stream, received, bytes, single_download, update_app,
                   java_download, metadata_info>>
    /\ UNCHANGED <<launcher_vars, builder_vars>>

\* /login/start is posted, the deeplink opened and printed; start is the
\* intermediate token of the answer or the way the step fails.
tg_login_start(start) ==
    /\ tg_auth.pc = "start"
    /\ tg_auth' =
          CASE start = "error" -> tg_ended(tg_auth, Err("start"))
            [] start \in {"not_json", "open_fails"} -> tg_ended(tg_auth, Panic("start"))
            [] OTHER -> [tg_auth EXCEPT !.pc = "poll", !.intermediate_token = start]
    /\ UNCHANGED <<progress, progress_phase, chunks, snapshot,
                   stream, received, bytes, single_download, update_app,
                   java_download, metadata_info>>
    /\ UNCHANGED <<launcher_vars, builder_vars>>

\* One turn of the loop: the poll request, the match on its answer and,
\* when the loop goes on, the sleep.
tg_poll(response) ==
    LET turn == poll_turn(response)
        answered == [tg_auth EXCEPT !.last = response]
    IN
    /\ tg_auth.pc = "poll"
    /\ turn.kind = "continue" => tg_auth.timeouts < MaxTimeouts
    /\ tg_auth' =
          IF turn.kind = "continue"
             THEN [answered EXCEPT !.timeouts = @ + 1]
             ELSE tg_ended(answered, turn)
    /\ UNCHANGED <<progress, progress_phase, chunks, snapshot,
                   stream, received, bytes, single_download, update_app,
                   java_download, metadata_info>>
    /\ UNCHANGED <<launcher_vars, builder_vars>>

NextAuth ==
    \/ \E info \in {"error", "not_json", "Ok"} : tg_authenticate(info)
    \/ \E start \in {"error", "not_json", "open_fails"} \cup IntermediateTokens :
          tg_login_start(start)
    \/ \E response \in PollResponses : tg_poll(response)

SpecAuth == InitProgress /\ [][NextAuth]_vars


\* ------------------------------------------ VersionInfo::get_metadata_info

MaxInherits == 2

MetadataInfo(id, url, digest) == [id |-> id, url |-> url, sha1 |-> digest]

MetadataInfos ==
    {MetadataInfo(id, url, digest) :
        id \in {"v", "p"}, url \in {"u1", "u2"}, digest \in {"s1", "s2"}}

\* The lists of at most MaxInherits inherited entries.
InheritsFrom == UNION {[1..n -> MetadataInfos] : n \in 0..MaxInherits}

get_parent_metadata_info_self(self) ==
    MetadataInfo(self.id, self.url, self.sha1)

get_parent_metadata_info(self) ==
    IF self.inherits_from # <<>>
       THEN self.inherits_from[1]
       ELSE MetadataInfo(self.id, self.url, self.sha1)

RECURSIVE push_all(_, _)
\* for version_info in list { versions_info.push(version_info.clone()) }
push_all(versions_info, list) ==
    IF list = <<>>
       THEN versions_info
       ELSE push_all(Append(versions_info, Head(list)), Tail(list))

get_metadata_info(self) ==
    Append(push_all(<<get_parent_metadata_info(self)>>, self.inherits_from),
           MetadataInfo(self.id, self.url, self.sha1))

\* A VersionInfo of a manifest, before get_metadata_info is called on it.
InitMetadata ==
    /\ remote_a = RemoteA1
    /\ disk = [p \in Paths |-> NoFile]
    /\ new
    /\ index_file = IndexFile(<<>>)
    /\ progress = NoProgress
    /\ progress_phase = "check"
    /\ chunks = [w \in Workers |-> <<>>]
    /\ snapshot = NoProgress
    /\ stream = <<>>
    /\ received = <<>>
    /\ bytes = <<>>
    /\ single_download = NoDownload
    /\ update_app = NewUpdateApp
    /\ java_download = NoJavaDownload
    /\ tg_auth = NoAuth
    /\ \E own \in MetadataInfos : \E inherits_from \in InheritsFrom :
          metadata_info = [called |-> FALSE, id |-> own.id, url |-> own.url,
                           sha1 |-> own.sha1, inherits_from |-> inherits_from,
                           versions_info |-> <<>>]

get_metadata_info_call ==
    /\ ~metadata_info.called
    /\ metadata_info' = [metadata_info EXCEPT
                           !.called = TRUE,
                           !.versions_info = get_metadata_info(metadata_info)]
    /\ UNCHANGED <<progress, progress_phase, chunks, snapshot,
                   stream, received, bytes, single_download, update_app,
                   java_download, tg_auth>>
    /\ UNCHANGED <<launcher_vars, builder_vars>>

NextMetadata == get_metadata_info_call

SpecMetadata == InitMetadata /\ [][NextMetadata]_vars


\* ------------------------------------------- VersionManifest (the builder)

\* VersionInfo: id, sha1 and the optional name ("" when there is none).
VersionInfo(id, digest, name) == [id |-> id, sha1 |-> digest, name |-> name]

\* The versions the builder is given: two builds of "v", a version of
\* another id that is named "v", and two builds of "w".
VersionInfos ==
    {VersionInfo("v", "s1", ""), VersionInfo("v", "s2", ""),
     VersionInfo("w-id", "s1", "v"),
     VersionInfo("w", "s1", ""), VersionInfo("w", "s2", "")}

\* VersionInfo::get_name.
get_name(version_info) ==
    IF version_info.name # "" THEN version_info.name ELSE version_info.id

\* VersionManifest::is_up_to_date.
VersionManifest_is_up_to_date(vs, version_info) ==
    \E i \in DOMAIN vs : vs[i] = version_info

\* add_version_and_save, in memory: retain the other names, push.
add_version(vs, version_info) ==
    Append(SelectSeq(vs, LAMBDA i : get_name(i) # get_name(version_info)),
           version_info)

\* VersionManifest::add_version_and_save: the versions change in memory,
\* then save_to_file writes them or fails.
add_version_and_save(version_info) ==
    /\ versions' = add_version(versions, version_info)
    /\ \/ manifest_file' = versions' /\ manifest_readable' = TRUE
       \/ UNCHANGED <<manifest_file, manifest_readable>>
    /\ UNCHANGED <<builder_download_entries, sync_result>>
    /\ UNCHANGED <<launcher_vars, progress_vars>>

read_local_unchecked(readable, data) == data

\* VersionManifest::read_local, with the Err of tokio::fs::read or of
\* serde_json::from_slice mapped to no versions as read_local_safe does.
read_local(readable, data) == IF readable THEN data ELSE <<>>

\* VersionManifest::read_local_safe.
read_local_safe ==
    /\ versions' = read_local(manifest_readable, manifest_file)
    /\ UNCHANGED <<manifest_file, manifest_readable, builder_download_entries,
                   sync_result>>
    /\ UNCHANGED <<launcher_vars, progress_vars>>

\* ------------------------------------------------ sync_version (the builder)

\* A version lists at most this many libraries.
MaxLibraries == 2

\* The libraries a version may list, by name.
LibraryNames == {"a", "b"}

\* VersionMetadata.libraries: a list, in which a library may appear twice.
LibraryLists == UNION {[1..n -> LibraryNames] : n \in 0..MaxLibraries}

\* The hashes of the objects of the asset index; <<>> when the version has
\* no asset index.
AssetIndexes == {<<>>, <<"h1">>, <<"h1", "h2">>}

\* The fields of VersionMetadata that sync_version reads.
VersionMetadatas ==
    [libraries : LibraryLists, asset_index : AssetIndexes, client : BOOLEAN]

CheckEntry(url, path) == [url |-> url, path |-> path]

\* Library::get_check_entries: the entry of the library's artifact.
library_check_entries(name) ==
    <<CheckEntry(<<"library", name>>, <<"libraries", name>>)>>

RECURSIVE get_libraries_check_downloads(_)
\* get_libraries_check_downloads: the entries of each library, in order.
get_libraries_check_downloads(libraries) ==
    IF libraries = <<>>
       THEN <<>>
       ELSE library_check_entries(Head(libraries))
              \o get_libraries_check_downloads(Tail(libraries))

\* AssetsMetadata::get_check_entries: one entry per object, stored under
\* its hash.
asset_check_entries(asset_index) ==
    [i \in DOMAIN asset_index |->
        CheckEntry(<<"resources", asset_index[i]>>, <<"assets", "objects", asset_index[i]>>)]

\* get_client_download_entry, as a list of no or one entry.
get_client_download_entry(version_metadata) ==
    IF version_metadata.client
       THEN <<CheckEntry(<<"client">>, <<"versions", "client.jar">>)>>
       ELSE <<>>

\* check_entries of sync_version: the libraries, extended by the assets,
\* with the client pushed last.
check_entries_of(version_metadata) ==
    get_libraries_check_downloads(version_metadata.libraries)
      \o asset_check_entries(version_metadata.asset_index)
      \o get_client_download_entry(version_metadata)

\* files::get_download_entries: the entries whose file is not verified.
get_download_entries(check_entries, verified) ==
    SelectSeq(check_entries, LAMBDA e : e.path \notin verified)

\* The paths an output directory may hold.
BuilderPaths ==
    {<<"libraries", n>> : n \in LibraryNames}
      \cup {<<"assets", "objects", h>> : h \in {"h1", "h2"}}
      \cup {<<"versions", "client.jar">>}

\* A list once shuffled: the number of times each element is in it.
shuffle(entries) ==
    [e \in {entries[i] : i \in DOMAIN entries} |->
        Cardinality({i \in DOMAIN entries : entries[i] = e})]

\* sync_version up to the call of download_files; verified are the paths
\* whose file is on disk with the expected digest.
sync_version(version_metadata, verified) ==
    /\ builder_download_entries' =
          shuffle(get_download_entries(check_entries_of(version_metadata), verified))
    /\ UNCHANGED <<versions, manifest_file, manifest_readable, sync_result>>
    /\ UNCHANGED <<launcher_vars, progress_vars>>

RECURSIVE PermutationsOf(_)
\* The orders of n positions: the orders of n - 1 with n put at any place.
PermutationsOf(n) ==
    IF n = 0
       THEN {<<>>}
       ELSE {SubSeq(order, 1, k) \o <<n>> \o SubSeq(order, k + 1, n - 1) :
                order \in PermutationsOf(n - 1), k \in 0..(n - 1)}

shuffle_repeats_first(entries, order) ==
    [i \in DOMAIN entries |-> entries[order[1]]]

\* download_entries.shuffle(&mut rng): the list in the order the generator
\* picked.
shuffle_with(entries, order) == [i \in DOMAIN entries |-> entries[order[i]]]

\* The `?`s of sync_version: on AssetsMetadata::read_or_download and
\* get_check_entries (a version with an asset index), on
\* get_download_entries, on download_files.
SyncFailures == {"none", "assets", "verification", "download"}

\* sync_version from its call to its return. verified are the paths whose
\* file is on disk with the expected digest, order is what the random
\* generator picks, failure the call that returns an error.
sync_version_returns(version_metadata, verified, order, failure) ==
    LET check_entries == check_entries_of(version_metadata)
        all_paths == [i \in DOMAIN check_entries |-> check_entries[i].path]
        shuffled == shuffle_with(get_download_entries(check_entries, verified),
                                         order)
        called == failure \in {"none", "download"}
    IN
    /\ sync_result = NoSyncResult
    /\ failure = "assets" => version_metadata.asset_index # <<>>
    /\ sync_result' =
          [version_metadata |-> version_metadata,
           verified |-> verified,
           failure |-> failure,
           download_files_called |-> called,
           download_entries |-> IF called THEN shuffled ELSE <<>>,
           returned |-> IF failure = "none" THEN "Ok" ELSE "Err",
           paths_to_copy |-> IF failure = "none" THEN all_paths ELSE <<>>]
    /\ builder_download_entries' =
          IF called THEN shuffle(shuffled) ELSE <<>>
    /\ UNCHANGED <<versions, manifest_file, manifest_readable>>
    /\ UNCHANGED <<launcher_vars, progress_vars>>

\* The builder on an empty launcher state.
InitBuilder ==
    /\ remote_a = RemoteA1
    /\ disk = [p \in Paths |-> NoFile]
    /\ new
    /\ index_file = IndexFile(<<>>)
    /\ no_progress

\* The builder starts on the launcher state of a first start, with any of
\* the initial index files.
InitBuilderRecords ==
    /\ remote_a = RemoteA1
    /\ disk = [p \in Paths |-> NoFile]
    /\ new
    /\ no_progress

\* At most this many files are in place when sync_version runs.
MaxVerified == 1

NextBuilder ==
    \/ \E version_metadata \in VersionMetadatas :
          \E verified \in {S \in SUBSET BuilderPaths : Cardinality(S) <= MaxVerified} :
             sync_version(version_metadata, verified)
    \/ \E version_info \in VersionInfos : add_version_and_save(version_info)
    \/ read_local_safe

SpecBuilder == InitBuilder /\ [][NextBuilder]_vars

\* The file at manifest_path is removed, or made unreadable, or its
\* content is cut so that it is no JSON: what it held is out of reach.
manifest_file_lost ==
    /\ manifest_readable
    /\ manifest_readable' = FALSE
    /\ UNCHANGED <<versions, manifest_file, builder_download_entries, sync_result>>
    /\ UNCHANGED <<launcher_vars, progress_vars>>

\* The same happens to the index file of the launcher.
index_file_lost ==
    /\ index_file.readable
    /\ index_file' = [index_file EXCEPT !.readable = FALSE]
    /\ UNCHANGED <<disk, remote_a, status, modpack_sync_task, task_result,
                   local_indexes, modpack_sync_window_open,
                   force_overwrite_checked, cancelled, run, spawned, update_result>>
    /\ UNCHANGED <<builder_vars, launch_ui, progress_vars>>

\* The launcher is started with no task in flight: ModpackSyncState::new
\* loads the local indexes.
launcher_start ==
    /\ ~modpack_sync_task
    /\ status' = NotSynced
    /\ local_indexes' = load_local_indexes(index_file)
    /\ modpack_sync_window_open' = FALSE
    /\ force_overwrite_checked' = FALSE
    /\ cancelled' = FALSE
    /\ update_result' = NoUpdate
    /\ UNCHANGED <<disk, index_file, remote_a, modpack_sync_task, task_result,
                   run, spawned>>
    /\ UNCHANGED <<builder_vars, launch_ui, progress_vars>>

\* The records of both programs are written, lost and loaded.
NextLoad ==
    \/ \E version_info \in VersionInfos : add_version_and_save(version_info)
    \/ read_local_safe
    \/ manifest_file_lost
    \/ index_file_lost
    \/ launcher_start

SpecLoad == InitBuilderRecords /\ [][NextLoad]_vars

\* The orders the random generator may pick: it is reached only when
\* get_download_entries has returned its list.
rng_orders(version_metadata, verified, failure) ==
    IF failure \in {"assets", "verification"}
       THEN {<<>>}
       ELSE PermutationsOf(Len(get_download_entries(
                check_entries_of(version_metadata), verified)))

\* One call of sync_version, for every version, every set of files in
\* place and every order of the shuffle.
NextShuffle ==
    /\ sync_result = NoSyncResult
    /\ \E version_metadata \in VersionMetadatas :
          \E verified \in {S \in SUBSET BuilderPaths : Cardinality(S) <= MaxVerified} :
             \E failure \in SyncFailures :
                \E order \in rng_orders(version_metadata, verified, failure) :
                   sync_version_returns(version_metadata, verified, order, failure)

SpecShuffle == InitBuilder /\ [][NextShuffle]_vars

\* The local records of both programs: the launcher, with every file of
\* modpack A in place, commits its index; the builder commits versions.
InitRecord ==
    /\ remote_a = RemoteA1
    /\ disk = [p \in Paths |-> IF p \in {P_mods_a, P_config_c} THEN "good" ELSE NoFile]
    /\ new
    /\ no_progress

NextRecord ==
    \/ \E name \in ModpackNames, force_overwrite \in BOOLEAN :
          sync_modpack_call(name, force_overwrite)
    \/ sync_modpack_check
    \/ download_files_start
    \/ \E p \in Paths : download_begin(p)
    \/ \E p \in Paths : download_finish(p)
    \/ sync_modpack_finish
    \/ \E version_info \in VersionInfos : add_version_and_save(version_info)
    \/ read_local_safe

SpecRecord == InitRecord /\ [][NextRecord]_vars


\* ================================================================ claims

\* The run removed a file or started a download.
did_some_work(r) ==
    r.removed # {} \/ \E p \in DOMAIN r.entry : r.entry[p] # "pending"

\* ---------------------------------------------------------------------- C1

\* C1: the index file is not written while sync_modpack is hashing,
\* removing or downloading; a run that ended otherwise than Ok left the
\* index file as it was when the run started; and a run that changed the
\* index file returned Ok after hash_files returned, every orphan was
\* removed and every download entry was fetched.
C1_RecordOnlyAfterSuccess ==
    /\ run.phase \in {"hash", "planned", "download"} => index_file = run.file_before
    /\ (run.phase = "finished" /\ run.result # "Ok") => index_file = run.file_before
    /\ (run.phase = "finished" /\ index_file # run.file_before) =>
          /\ run.result = "Ok"
          /\ run.saved
          /\ \A p \in run.overwrite : p \in DOMAIN run.hashes
          /\ \A p \in run.removed : disk[p] = NoFile
          /\ \A p \in DOMAIN run.entry : run.entry[p] = "ok"

\* A run that fetched an entry and removed an orphan wrote the index file.
C1_Witness ==
    /\ run.phase = "finished"
    /\ run.result = "Ok"
    /\ index_file # run.file_before
    /\ run.removed # {}
    /\ \E p \in DOMAIN run.entry : run.entry[p] = "ok"

\* ---------------------------------------------------------------------- C2

\* The indexes the next is_up_to_date of update reads once the run is over:
\* reloaded from the file, except after a cancelled task.
indexes_after_run ==
    IF run.result = "Cancelled" THEN local_indexes ELSE load_local_indexes(index_file)

\* C2: after a run that was interrupted part-way (by an error, by
\* cancellation or by a crash, after it removed a file or started a
\* download), is_up_to_date is false for the content set of the run at the
\* version the server offers.
C2_InterruptedRunIsNotUpToDate ==
    (/\ run.phase = "finished"
     /\ run.result \in {"Err", "Cancelled", "Crashed"}
     /\ did_some_work(run))
    => ~is_up_to_date(indexes_after_run, remote_index(run.index.modpack_name))

\* ---------------------------------------------------------------------- C3

in_asset_pool(p) ==
    Len(p) > Len(get_assets_dir) /\ SubSeq(p, 1, Len(get_assets_dir)) = get_assets_dir

\* p lies under the directory x of the modpack directory of index.
in_modpack_subdir(index, x, p) ==
    LET dir == get_minecraft_dir(index.modpack_name) \o x IN
    Len(p) > Len(dir) /\ SubSeq(p, 1, Len(dir)) = dir

\* p lies under an include directory of index.
in_include(index, p) == \E x \in index.include : in_modpack_subdir(index, x, p)

\* p is in the protect list of index: under an include_no_overwrite
\* directory, or in the asset pool.
in_protect_list(index, p) ==
    in_asset_pool(p) \/ \E x \in index.include_no_overwrite : in_modpack_subdir(index, x, p)

\* The name of p relative to the modpack directory of index ("assets/.."
\* for a file of the asset pool).
relative_name(index, p) ==
    IF in_asset_pool(p)
       THEN <<"assets">> \o SubSeq(p, Len(get_assets_dir) + 1, Len(p))
       ELSE SubSeq(p, Len(get_minecraft_dir(index.modpack_name)) + 1, Len(p))

\* The destination of a manifest key: keys starting with assets/ go under
\* the assets directory, all others under the modpack directory.
destination(index, file) ==
    IF Len(file) > 1 /\ Head(file) = "assets"
       THEN get_assets_dir \o Tail(file)
       ELSE get_minecraft_dir(index.modpack_name) \o file

\* The local file of a manifest key is absent or has not the expected content.
is_wrong(d, index, file) ==
    \/ d[destination(index, file)] = NoFile
    \/ sha1(d[destination(index, file)]) # index.objects[file]

\* ---------------------------------------------------------------------- C4

\* C4: after a run that failed or was cancelled part-way, the plan computed
\* with the same manifest and the same force_overwrite flag fetches exactly
\* the manifest keys whose local file is absent or has not the expected
\* content: a file the interrupted run started to write counts wherever it
\* lies, and no key whose local file is correct is fetched.  A file of the
\* protect list that the run did not write is left to its owner when
\* force_overwrite is false, and is not counted.
C4_NextPlanFetchesExactlyTheWrongFiles ==
    (/\ run.phase = "finished"
     /\ run.result \in {"Err", "Cancelled"}
     /\ did_some_work(run))
    => LET index == run.index
           user_owned(file) ==
              /\ ~run.force_overwrite
              /\ in_protect_list(index, destination(index, file))
              /\ disk[destination(index, file)] # NoFile
              /\ destination(index, file) \notin DOMAIN run.entry
       IN \A file \in DOMAIN index.objects :
             ~user_owned(file) =>
                (file \in plan_fetch(disk, index, run.force_overwrite)
                    <=> is_wrong(disk, index, file))

\* ---------------------------------------------------------------------- C5

\* C5: after a run that returned Ok, the plan computed with the same manifest
\* and the same force_overwrite flag fetches nothing and removes nothing.
C5_SecondPlanIsEmpty ==
    (run.phase = "finished" /\ run.result = "Ok")
    => /\ plan_fetch(disk, run.index, run.force_overwrite) = {}
       /\ plan_remove(disk, run.index, run.force_overwrite) = {}

\* ---------------------------------------------------------------------- C6

\* C6: when the removal loop of sync_modpack has run to its end, the files
\* removed are exactly the files found under the scanned directories (the
\* include directories, and with force_overwrite the include_no_overwrite
\* directories and the asset pool) whose relative name is no manifest key,
\* and without force_overwrite no file of the protect list was removed.
C6_RemovedAreExactlyTheOrphans ==
    [][(run.phase = "hash" /\ run'.phase = "planned") =>
         LET index == run.index
             force == run.force_overwrite
             found == {p \in Paths :
                          /\ disk[p] # NoFile
                          /\ in_include(index, p) \/ (force /\ in_protect_list(index, p))}
             orphans == {p \in found : relative_name(index, p) \notin DOMAIN index.objects}
         IN /\ run'.removed = orphans
            /\ \A p \in Paths : disk'[p] = IF p \in orphans THEN NoFile ELSE disk[p]
            /\ ~force => \A p \in Paths :
                            (disk[p] # NoFile /\ in_protect_list(index, p))
                               => disk'[p] = disk[p]
      ]_vars

\* ---------------------------------------------------------------------- C7

\* The path p is protected against the run of `index`: another content set's
\* manifest lists it (an asset of the shared pool), or it lies under an
\* include_no_overwrite directory and the run does not force.
protected_from(p, index, force) ==
    \/ \E other \in {remote_a, RemoteB} :
          /\ other.modpack_name # index.modpack_name
          /\ \E file \in DOMAIN other.objects : destination(other, file) = p
    \/ ~force /\ \E x \in index.include_no_overwrite : in_modpack_subdir(index, x, p)

\* C7: no step of any sync run deletes a path that is protected.
C7_ProtectedIsNeverDeleted ==
    [][\A p \in Paths :
          (disk[p] # NoFile /\ disk'[p] = NoFile)
             => ~protected_from(p, run.index, run.force_overwrite)
      ]_vars

\* ---------------------------------------------------------------------- C8

\* C8: without force_overwrite, a file that exists under an
\* include_no_overwrite directory or in the asset pool is not hashed, not
\* removed and not put on the fetch list by sync_modpack.
C8_ProtectedFilesUntouched ==
    [][(run.phase = "hash" /\ run'.phase \in {"planned", "finished"}
          /\ ~run.force_overwrite) =>
         \A p \in Paths :
            (disk[p] # NoFile /\ in_protect_list(run.index, p))
               => /\ p \notin DOMAIN run'.hashes
                  /\ disk'[p] = disk[p]
                  /\ \A i \in DOMAIN run'.paths : run'.paths[i] # p
      ]_vars

\* ---------------------------------------------------------------------- C9

\* C9: with force_overwrite, when hash_files and the removal loop ended
\* without error, every manifest key whose local file is absent or has not
\* the expected content is on the fetch list, whether or not it is in the
\* protect list, and every file of the protect list that the manifest does
\* not list has been removed.
C9_ForceOverwriteGivesNoExemption ==
    [][(run.phase = "hash" /\ run'.phase = "planned" /\ run.force_overwrite) =>
         LET index == run.index IN
         /\ \A file \in DOMAIN index.objects :
               is_wrong(disk, index, file)
                  => \E i \in DOMAIN run'.paths :
                        run'.paths[i] = destination(index, file)
         /\ \A p \in Paths :
               (/\ disk[p] # NoFile
                /\ in_protect_list(index, p)
                /\ relative_name(index, p) \notin DOMAIN index.objects)
               => p \in run'.removed /\ disk'[p] = NoFile
      ]_vars

\* A forced run put a protected manifest file on the fetch list and removed
\* a protected file the manifest does not list.
C9_Witness ==
    /\ run.phase = "planned"
    /\ run.force_overwrite
    /\ \E p \in run.removed : in_protect_list(run.index, p)
    /\ \E i \in DOMAIN run.paths : in_protect_list(run.index, run.paths[i])

\* --------------------------------------------------------------------- C10

\* C10: the fetch list sync_modpack hands to download_files lists, once
\* each, the manifest keys that are not skipped by the protect rule (without
\* force_overwrite, a file that exists in the protect list) and whose
\* observed digest is absent (the file is missing or under no scanned
\* directory) or differs from the manifest's; position i of urls holds
\* <server-base>/<modpack_name>/<key> and position i of paths the
\* destination of the same key.
C10_FetchListIsTheWrongEntries ==
    run.phase = "planned" =>
       LET index == run.index
           force == run.force_overwrite
           skipped(p) == ~force /\ disk[p] # NoFile /\ in_protect_list(index, p)
           observed(p) == IF disk[p] # NoFile
                             /\ (in_include(index, p) \/ (force /\ in_protect_list(index, p)))
                             THEN sha1(disk[p])
                             ELSE "absent"
           expected == {file \in DOMAIN index.objects :
                           /\ ~skipped(destination(index, file))
                           /\ observed(destination(index, file)) # index.objects[file]}
       IN /\ Len(run.urls) = Len(run.paths)
          /\ Len(run.urls) = Cardinality(expected)
          /\ \A file \in expected : \E i \in DOMAIN run.urls :
                /\ run.urls[i] = <<get_server_base, index.modpack_name>> \o file
                /\ run.paths[i] = destination(index, file)

\* A fetch list of two entries.
C10_Witness ==
    /\ run.phase = "planned"
    /\ Len(run.urls) = 2
    /\ Len(run.paths) = 2

\* --------------------------------------------------------------------- C11

\* C11 as stated: when the token is cancelled while the future has not
\* returned, the step that ends the run has the task send NotSynced.
C11_CancelledBeforeCompletionIsNotSynced ==
    [][(/\ cancelled
        /\ run.phase \in {"hash", "planned", "download"}
        /\ run'.phase = "finished"
        /\ run'.result # "Crashed")
       => task_result' = NotSynced
      ]_vars

\* C11 as amended: when the select! of the task takes the cancellation
\* branch, the result of the task is NotSynced; the call of update that
\* takes it clears the task, sets the status to NotSynced, leaves
\* local_indexes as they are and returns ModpackNotSynced.
C11_CancelledIsNotSynced ==
    [][/\ (run.result = "Cancelled" /\ run.phase = "finished")
          => task_result = NotSynced
       /\ (run.result = "Cancelled" /\ run.phase = "finished" /\ run'.phase = "taken")
          => /\ status' = NotSynced
             /\ ~modpack_sync_task'
             /\ task_result' = NoResult
             /\ local_indexes' = local_indexes
             /\ update_result' = ModpackNotSynced
      ]_vars

\* update has taken the result of a cancelled task.
C11_Witness ==
    /\ run.phase = "taken"
    /\ run.result = "Cancelled"
    /\ status = NotSynced
    /\ ~modpack_sync_task
    /\ update_result = ModpackNotSynced

\* --------------------------------------------------------------------- C12

\* C12: once the task has taken the cancellation branch, the run does
\* nothing more: no file is removed or written, no download entry changes,
\* the index file is not written.  A run that called save_local_index has
\* the task send Synced, and a run whose task sent NotSynced did not call
\* save_local_index and left the index file as it was.
C12_NoStepAfterCancellation ==
    [][/\ (run.phase = "finished" /\ run.result = "Cancelled")
          => /\ disk' = disk
             /\ index_file' = index_file
             /\ run'.phase \in {"finished", "taken"}
             /\ run'.phase = "finished" => run' = run
       /\ (run.phase = "finished" /\ run.saved) => task_result = Synced
       /\ (run.phase = "finished" /\ task_result = NotSynced)
          => ~run.saved /\ index_file = run.file_before
      ]_vars

\* A run was cancelled after it removed a file, with a download entry that
\* had not started and another one that was being written.
C12_Witness ==
    /\ run.phase = "finished"
    /\ run.result = "Cancelled"
    /\ task_result = NotSynced
    /\ run.removed # {}
    /\ \E p \in DOMAIN run.entry : run.entry[p] = "pending"
    /\ \E p \in DOMAIN run.entry : run.entry[p] = "writing"

\* --------------------------------------------------------------------- C13

\* The runtime keeps polling the spawned task, and download_files keeps
\* working on its entries: every step of the future that can be taken is
\* eventually taken.
FairTask ==
    /\ WF_vars(sync_modpack_check)
    /\ WF_vars(download_files_start)
    /\ WF_vars(\E p \in Paths : download_begin(p))
    /\ WF_vars(\E p \in Paths : download_finish(p) \/ download_fail(p))
    /\ WF_vars(sync_modpack_finish)

\* The launcher starts with modpack A recorded at an older version.
InitTask == Init /\ index_file = IndexFile(<<older(remote_a)>>)

\* The launcher starts with an old jar under mods and with modpack A
\* recorded, at an older version or at the version the server offers.
InitGui ==
    /\ Init
    /\ disk[P_mods_o] # NoFile
    /\ index_file \in {IndexFile(<<older(remote_a)>>), IndexFile(<<RemoteB, remote_a>>)}

SpecGui == InitGui /\ [][Next]_vars

SpecFair == InitTask /\ [][Next]_vars /\ FairTask

\* A spawned task has a result waiting exactly when its future is over, the
\* result stays as sent until update takes it, and it is the status of the
\* way the future ended.
one_result_of_the_right_status ==
    [][/\ modpack_sync_task => (task_result # NoResult <=> run.phase = "finished")
       /\ (modpack_sync_task /\ task_result # NoResult)
          => task_result' \in {task_result, NoResult}
       /\ (modpack_sync_task /\ run.phase = "finished") =>
             /\ task_result = Synced <=> run.result = "Ok"
             /\ task_result = SyncErrorOffline
                   <=> (run.result = "Err" /\ run.error = "connect")
             /\ task_result.tag = "SyncError"
                   <=> (run.result = "Err" /\ run.error # "connect")
             /\ task_result.tag = "SyncError" => task_result.detail = run.error
             /\ task_result = NotSynced <=> run.result = "Cancelled"
      ]_vars

\* A spawned task sends its result, whatever the user does, unless the
\* process is killed first.
task_delivers_its_result ==
    (modpack_sync_task /\ task_result = NoResult)
       ~> (task_result # NoResult \/ ~modpack_sync_task)

\* C13: every spawned task sends exactly one result, without waiting for
\* the user; its status is Synced exactly when the future returned Ok,
\* SyncErrorOffline exactly for a connection error, SyncError with the
\* error's text exactly for any other error, and NotSynced exactly when
\* the cancellation branch was taken.
C13_OneResultOfTheRightStatus ==
    one_result_of_the_right_status /\ task_delivers_its_result

\* A task has sent SyncErrorOffline for a connection error.
C13_Witness ==
    /\ modpack_sync_task
    /\ run.phase = "finished"
    /\ run.result = "Err"
    /\ run.error = "connect"
    /\ task_result = SyncErrorOffline

\* --------------------------------------------------------------------- C14

\* The versions a record may hold for a modpack.
ModpackVersions == {"v1-old", "v1", "v2"}

\* A selected index of which only the name and the version matter.
selected(name, version) == [modpack_name |-> name, modpack_version |-> version]

\* The entries of a record whose name is not `name`, in their order.
entries_of_other_names(indexes, name) ==
    SelectSeq(indexes, LAMBDA x : x.modpack_name # name)

\* C14: is_up_to_date is true exactly when the loaded record has an entry
\* of that name with that version (both for the launcher's local index and
\* for the builder's VersionManifest); and once a commit of (name, v) is
\* written, the reloaded record answers true for (name, v), false for
\* every other version of that name, has exactly one entry of that name,
\* and has the entries of the other names as before.
C14_RecordRoundTrip ==
    [][/\ \A name \in ModpackNames, version \in ModpackVersions :
             LET loaded == load_local_indexes(index_file) IN
             is_up_to_date(loaded, selected(name, version))
                <=> \E i \in DOMAIN loaded :
                       /\ loaded[i].modpack_name = name
                       /\ loaded[i].modpack_version = version
       /\ \A v \in VersionInfos :
             VersionManifest_is_up_to_date(versions, v)
                <=> \E i \in DOMAIN versions :
                       get_name(versions[i]) = get_name(v) /\ versions[i] = v
       /\ (run.phase = "download" /\ run'.phase = "finished" /\ run'.saved
             /\ index_file' # index_file)
          => LET loaded == load_local_indexes(index_file')
                 name == run.index.modpack_name
             IN /\ is_up_to_date(loaded, run.index)
                /\ \A version \in ModpackVersions \ {run.index.modpack_version} :
                      ~is_up_to_date(loaded, selected(name, version))
                /\ Cardinality({i \in DOMAIN loaded : loaded[i].modpack_name = name}) = 1
                /\ entries_of_other_names(loaded, name)
                      = entries_of_other_names(load_local_indexes(index_file), name)
       /\ \A v \in VersionInfos :
             (add_version_and_save(v) /\ manifest_file' = versions')
             => LET loaded == manifest_file' IN
                /\ VersionManifest_is_up_to_date(loaded, v)
                /\ \A w \in VersionInfos \ {v} :
                      get_name(w) = get_name(v) => ~VersionManifest_is_up_to_date(loaded, w)
                /\ Cardinality({i \in DOMAIN loaded : get_name(loaded[i]) = get_name(v)}) = 1
                /\ SelectSeq(loaded, LAMBDA x : get_name(x) # get_name(v))
                      = SelectSeq(versions, LAMBDA x : get_name(x) # get_name(v))
      ]_vars

\* Both records hold two names after commits: the launcher replaced the
\* older entry of a modpack, the builder wrote two versions.
C14_Witness ==
    /\ run.phase = "finished"
    /\ run.saved
    /\ index_file # run.file_before
    /\ Len(load_local_indexes(index_file)) = 2
    /\ Len(manifest_file) = 2
    /\ versions = manifest_file

\* --------------------------------------------------------------------- C15

\* C15 as stated: a call of update that finds the status Syncing with
\* ignore_version and no task stored spawns a task; one that finds Syncing
\* without ignore_version, no task stored and the record at the remote
\* version spawns none and sets the status to Synced.
C15_ManualRescanAlwaysStarts ==
    [][\A name \in ModpackNames, need_modpack_check, index_online \in BOOLEAN :
          (status.tag = "Syncing" /\ ~modpack_sync_task
             /\ update(name, need_modpack_check, index_online))
          => /\ status.ignore_version
                => modpack_sync_task' /\ run'.phase = "hash"
             /\ (~status.ignore_version
                   /\ is_up_to_date(local_indexes, remote_index(name)))
                => ~modpack_sync_task' /\ status' = Synced
      ]_vars

\* C15 as amended: the same, for the calls of update that are not a
\* re-check (need_modpack_check is false): the task spawned is for the
\* selected index with the requested force_overwrite.  A re-check discards
\* the request: it spawns no task when the record is at the remote version
\* and sets the status to Synced when the index is online, NotSynced when
\* it is not.
C15_ManualRescanStartsUnlessRecheck ==
    [][\A name \in ModpackNames, need_modpack_check, index_online \in BOOLEAN :
          (status.tag = "Syncing" /\ ~modpack_sync_task
             /\ update(name, need_modpack_check, index_online))
          => /\ (status.ignore_version /\ ~need_modpack_check)
                => /\ modpack_sync_task'
                   /\ run'.phase = "hash"
                   /\ run'.index = remote_index(name)
                   /\ run'.force_overwrite = status.force_overwrite
                   /\ status' = status
             /\ (~status.ignore_version /\ ~need_modpack_check
                   /\ is_up_to_date(local_indexes, remote_index(name)))
                => ~modpack_sync_task' /\ status' = Synced /\ spawned' = spawned
             /\ (need_modpack_check /\ is_up_to_date(local_indexes, remote_index(name)))
                => /\ ~modpack_sync_task'
                   /\ spawned' = spawned
                   /\ status' = IF index_online THEN Synced ELSE NotSynced
      ]_vars

\* A task was spawned for a request of the sync window although the record
\* is at the version the server offers.
C15_Witness ==
    /\ modpack_sync_task
    /\ run.phase = "hash"
    /\ status.tag = "Syncing"
    /\ status.ignore_version
    /\ is_up_to_date(local_indexes, run.index)

\* --------------------------------------------------------------------- C16

\* The Local Sync Record on disk holds index.
record_persisted(file, index) ==
    \E i \in 1..Len(load_local_indexes(file)) : load_local_indexes(file)[i] = index

\* C16: a run that ended after a local I/O error never reports Synced: when
\* sync_modpack has returned Ok and the status sent is Synced, every orphan
\* was removed, every download entry wrote its file, and the Local Sync
\* Record on disk holds the index of the run.
C16_LocalIoErrorEndsRunWithError ==
    (run.phase = "finished" /\ run.result = "Ok")
    => /\ task_result = Synced
       /\ run.removed = orphan_paths(run.index, run.overwrite)
       /\ \A p \in DOMAIN run.entry : run.entry[p] = "ok" /\ disk[p] = "good"
       /\ record_persisted(index_file, run.index)

\* --------------------------------------------------------------------- C17

C18_LaunchOnlyWhenReady ==
    [][\A auth_ready, java_ready, index_online \in BOOLEAN :
          \A force_launch_result \in ForceLaunchResults :
             render_launch(auth_ready, java_ready, index_online, force_launch_result)
             => /\ launch_ui' = "launch"
                   => auth_ready /\ java_ready /\ (status = Synced \/ ~index_online)
                /\ (index_online /\ status # Synced)
                   => /\ launch_ui' # "launch"
                      /\ auth_ready => launch_ui' = "download"
                      /\ ~auth_ready => launch_ui' = "none"
      ]_vars

\* The launch panel is rendered after a sync run that was committed.
C18_Witness ==
    /\ launch_ui = "launch"
    /\ status = Synced
    /\ run.phase = "taken"
    /\ run.result = "Ok"

\* --------------------------------------------------------------------- C19

C20_NoTwoEntriesShareAPath ==
    /\ \A e \in DOMAIN builder_download_entries :
          /\ builder_download_entries[e] = 1
          /\ \A f \in DOMAIN builder_download_entries : f.path = e.path => f = e
    /\ \A e, f \in run.entries : f.path = e.path => f = e

\* --------------------------------------------------------------------- C21

\* C21: a step that cancels the token changes neither the status nor the
\* stored task, nor the future, nor a result already sent; a step that
\* spawns a task leaves it with a token that is not cancelled; and the
\* select! of a task takes the cancellation branch only with the token
\* cancelled while that task is stored.
C21_FreshTokenPerTask ==
    [][/\ (cancelled' /\ ~cancelled)
          => /\ status' = status
             /\ modpack_sync_task' = modpack_sync_task
             /\ run' = run
             /\ task_result' = task_result
       /\ spawned' # spawned
          => ~cancelled' /\ modpack_sync_task' /\ run'.phase = "hash"
       /\ (run'.result = "Cancelled" /\ run.result # "Cancelled")
          => cancelled /\ modpack_sync_task
      ]_vars

\* cancel_sync was called with no task in flight, and a sync is requested:
\* the next update spawns a task.
C21_Witness ==
    /\ cancelled
    /\ ~modpack_sync_task
    /\ status.tag = "Syncing"

\* --------------------------------------------------------------------- C22

\* C22: the steps of one run are in the order hash, remove, download,
\* commit.  A step of the run that removes a file has the digests of all
\* scanned files; a download entry starts only with every orphan of the
\* scanned directories removed and gone from disk; a run that ends where a
\* removal failed has no download entry; and the record is written only in
\* the step that ends a run whose entries were all fetched.
C22_HashRemoveDownloadCommit ==
    [][/\ (run.phase = "hash" /\ disk' # disk)
          => /\ DOMAIN run'.hashes = run'.overwrite
             /\ \A p \in run'.overwrite : run'.hashes[p] = sha1(disk[p])
             /\ run'.removed # {}
             /\ \A p \in Paths : disk'[p] # disk[p] => p \in run'.removed /\ disk'[p] = NoFile
       /\ (\E p \in DOMAIN run.entry :
              run.phase = "download" /\ run.entry[p] = "pending"
                /\ run'.entry[p] = "writing")
          => /\ run.removed = orphan_paths(run.index, run.overwrite)
             /\ \A q \in run.removed : disk[q] = NoFile
       /\ (run.phase = "hash" /\ run'.phase = "finished")
          => run'.entries = {} /\ run'.urls = <<>> /\ run'.paths = <<>>
       /\ index_file' # index_file
          => /\ run.phase = "download" /\ run'.phase = "finished"
             /\ \A p \in DOMAIN run.entry : run.entry[p] = "ok"
      ]_vars

\* A run went through the four steps: it hashed, removed an orphan,
\* fetched an entry and wrote the record.
C22_Witness ==
    /\ run.phase = "finished"
    /\ run.result = "Ok"
    /\ run.removed # {}
    /\ run.entries # {}
    /\ record_persisted(index_file, run.index)
    /\ index_file # run.file_before

\* --------------------------------------------------------------------- C23

FairCancel ==
    /\ WF_vars(\E name \in ModpackNames, need_modpack_check, index_online \in BOOLEAN :
                  update(name, need_modpack_check, index_online))
    /\ WF_vars(task_cancelled)
    /\ WF_vars(download_files_start)

\* The frames, the sync requests of the main panel, the cancel button and
\* the task.
NextCancel ==
    \/ \E name \in ModpackNames, need_modpack_check, index_online \in BOOLEAN :
          update(name, need_modpack_check, index_online)
    \/ schedule_sync_if_needed
    \/ click_sync_button
    \/ cancel_sync
    \/ sync_modpack_check
    \/ download_files_start
    \/ \E p \in Paths : download_begin(p)
    \/ \E p \in Paths : download_finish(p)
    \/ \E p \in Paths : download_fail(p)
    \/ sync_modpack_finish
    \/ task_cancelled

SpecCancel == InitTask /\ [][NextCancel]_vars /\ FairCancel

C25_EveryPhaseStartsReset ==
    [][/\ (progress_phase' # progress_phase /\ progress_phase' \in {"check", "download"})
          => progress' = NoProgress
       /\ (progress_phase' = progress_phase /\ progress_phase \in {"checking", "downloading"})
          => progress'.done >= progress.done /\ progress'.total >= progress.total
      ]_vars

\* The chunks that were appended whole: all that were received, but the one
\* whose write failed.
appended_chunks ==
    IF single_download.write_failed
       THEN SubSeq(received, 1, Len(received) - 1)
       ELSE received

\* finish is called only after the stream ended without an error, and a
\* call that returned an error has not called it.
finish_only_after_clean_end ==
    /\ single_download.finished => stream = <<>> /\ single_download.result # "Err"
    /\ single_download.result = "Err" => ~single_download.finished

\* C26 as stated: in download_new_launcher and download_java set_length is
\* called before any increment, every chunk received is counted by its
\* length (done is the number of bytes received) and appended in the order
\* received, and finish is called only after the stream ended without error.
C26_EveryReceivedChunkCounted ==
    /\ [](/\ progress.done = Len(Flatten(received))
          /\ bytes = Flatten(received)
          /\ finish_only_after_clean_end)
    /\ [][progress'.done # progress.done => single_download.length_set]_vars

\* C26, amended: set_length is called before any increment; every chunk
\* that was received and appended whole is counted by its length, so done
\* is the number of bytes of those chunks; the bytes appended are the bytes
\* received, in order, up to the point where a write of download_java
\* failed: the chunk of a failed write is not counted, and the function
\* returns the error; finish is called only after the stream ended without
\* a stream error or a write error.
C26_EveryAppendedChunkCounted ==
    /\ [](/\ progress.done = Len(Flatten(appended_chunks))
          /\ IsPrefix(Flatten(appended_chunks), bytes)
          /\ IsPrefix(bytes, Flatten(received))
          /\ (~single_download.write_failed => bytes = Flatten(received))
          /\ finish_only_after_clean_end)
    /\ [][progress'.done # progress.done => single_download.length_set]_vars

\* The loop ended after it appended MaxChunks chunks, not all the same.
C26_Witness ==
    /\ single_download.finished
    /\ Len(received) = MaxChunks
    /\ received[1] # received[2]
    /\ progress.done = Len(bytes)

\* The number of times entry e is in the list entries.
count_in(entries, e) == Cardinality({i \in DOMAIN entries : entries[i] = e})

\* C27: in sync_version the list handed to download_files holds each entry
\* as many times as the checked entries hold it with a path that is not
\* verified (a permutation: none added, dropped or duplicated); when the
\* function returns Ok, verification and the downloads succeeded and
\* paths_to_copy is the path of every checked entry in the order checked,
\* whatever the shuffle picked; when it returns an error, no paths_to_copy
\* is returned.
C27_ShuffleIsPermutation ==
    LET check_entries == check_entries_of(sync_result.version_metadata)
        entries == {check_entries[i] : i \in DOMAIN check_entries}
                     \cup {sync_result.download_entries[i] :
                              i \in DOMAIN sync_result.download_entries}
    IN
    /\ sync_result.download_files_called =>
          \A e \in entries :
             count_in(sync_result.download_entries, e) =
                IF e.path \in sync_result.verified
                   THEN 0
                   ELSE count_in(check_entries, e)
    /\ sync_result.returned = "Ok" =>
          /\ sync_result.failure = "none"
          /\ sync_result.download_files_called
          /\ sync_result.paths_to_copy =
                [i \in DOMAIN check_entries |-> check_entries[i].path]
    /\ sync_result.returned # "Ok" => sync_result.paths_to_copy = <<>>

\* sync_version returned Ok after it handed to download_files, not in the
\* order checked, the entries of a version of which one file was in place.
C27_Witness ==
    /\ sync_result.returned = "Ok"
    /\ Len(sync_result.download_entries) >= 2
    /\ sync_result.download_entries #
          get_download_entries(check_entries_of(sync_result.version_metadata),
                               sync_result.verified)
    /\ Len(sync_result.paths_to_copy) > Len(sync_result.download_entries)

\* C28: a step spawns a task only from a state where the status is Syncing,
\* no task is stored and no future of an earlier task is still running, and
\* it spawns one task, which it stores; so no step of the button, of the
\* window or of schedule_sync_if_needed starts a task, and none is started
\* while one is in flight.
C28_AtMostOneTaskInFlight ==
    [][spawned' # spawned
          => /\ status.tag = "Syncing"
             /\ ~modpack_sync_task
             /\ run.phase \notin {"hash", "planned", "download"}
             /\ task_result = NoResult
             /\ spawned' = spawned + 1
             /\ modpack_sync_task'
      ]_vars

\* While the task of a plain sync downloads, a forced sync is requested in
\* the window.
C28_Witness ==
    /\ modpack_sync_task
    /\ run.phase = "download"
    /\ ~run.force_overwrite
    /\ status = Syncing(TRUE, TRUE)

\* C29: while a task is stored (spawned, its result not yet taken by
\* update) ready_for_launch() returns false.
C29_NotReadyWhileTaskInFlight ==
    modpack_sync_task => ~ready_for_launch(status)

\* C30: when update takes the result Synced of a task, the modpack the task
\* synced is the modpack selected in that frame, so that ready_for_launch()
\* is true for the selection.
C30_SyncedRefersToSelection ==
    [][(run'.phase = "taken" /\ run.phase # "taken" /\ ready_for_launch(status'))
          => run.index = remote_index(run'.selected)
      ]_vars

\* C31: the call of update that takes a task result stores the status the
\* task sent, clears the stored task and closes the sync window; for a
\* result other than NotSynced it reloads the local records from the index
\* file and returns ModpackSynced, for NotSynced it keeps the records and
\* returns ModpackNotSynced; a call that takes no result returns
\* ModpackNotSynced.
C31_TakingAResult ==
    [][/\ (modpack_sync_task /\ ~modpack_sync_task')
          => /\ task_result # NoResult
             /\ status' = task_result
             /\ ~modpack_sync_window_open'
             /\ task_result' = NoResult
             /\ IF task_result = NotSynced
                   THEN /\ local_indexes' = local_indexes
                        /\ update_result' = ModpackNotSynced
                   ELSE /\ task_result \in {Synced, SyncErrorOffline}
                             \/ task_result.tag = "SyncError"
                        /\ local_indexes' = load_local_indexes(index_file)
                        /\ update_result' = ModpackSynced
       /\ (/\ ~(modpack_sync_task /\ ~modpack_sync_task')
           /\ \E name \in ModpackNames, need_modpack_check, index_online \in BOOLEAN :
                 update(name, need_modpack_check, index_online))
          => update_result' = ModpackNotSynced
      ]_vars

\* update has taken the result of a cancelled task with the window open
\* before, and the records stayed as they were.
C31_Witness ==
    /\ run.phase = "taken"
    /\ run.result = "Cancelled"
    /\ status = NotSynced
    /\ update_result = ModpackNotSynced
    /\ ~modpack_sync_task

\* C32: a call of schedule_sync_if_needed turns NotSynced, SyncError and
\* SyncErrorOffline into Syncing with both flags false, leaves Syncing
\* (with its flags) and Synced as they are, and changes neither the stored
\* task, nor the token, nor the local records, nor the result that waits.
C32_ScheduleSyncIfNeeded ==
    [][schedule_sync_if_needed
          => /\ IF status.tag \in {"Syncing", "Synced"}
                   THEN status' = status
                   ELSE /\ status.tag \in {"NotSynced", "SyncError", "SyncErrorOffline"}
                        /\ status'.tag = "Syncing"
                        /\ ~status'.ignore_version
                        /\ ~status'.force_overwrite
             /\ modpack_sync_task' = modpack_sync_task
             /\ cancelled' = cancelled
             /\ local_indexes' = local_indexes
             /\ task_result' = task_result
      ]_vars

\* After a task ended with an error and update took its result, a plain
\* sync is scheduled again.
C32_Witness ==
    /\ run.phase = "taken"
    /\ run.result = "Err"
    /\ ~modpack_sync_task
    /\ update_result = ModpackSynced
    /\ status = Syncing(FALSE, FALSE)

\* C33: the self-updater has replaced the binary only if the version check
\* answered NeedUpdate and the download it spawned ended without error, and
\* then with the bytes of the whole body in the order received; a message
\* Downloaded is sent only for a download that returned Ok, and after a
\* download that returned an error no bytes are handed on and nothing is
\* replaced.
C33_ReplaceOnlyWithCompleteDownload ==
    /\ update_app.replaced
          => /\ update_app.update_status = "NeedUpdate"
             /\ update_app.downloads_spawned = 1
             /\ single_download.result = "Ok"
             /\ single_download.finished
             /\ stream = <<>>
             /\ update_app.replaced_with = Flatten(received)
    /\ update_app.new_binary_receiver = "Downloaded"
          => single_download.result = "Ok" /\ update_app.new_binary = Flatten(received)
    /\ single_download.result = "Err"
          => ~update_app.replaced /\ update_app.new_binary = <<>>
    /\ update_app.update_status \in {"Checking", "UpToDate", "Error"}
          => update_app.new_binary_receiver = "None" /\ single_download.pc = "idle"

\* The binary was replaced by a body of MaxChunks chunks and the updater
\* exited.
C33_Witness ==
    /\ update_app.replaced
    /\ update_app.window = "exited"
    /\ Len(received) = MaxChunks
    /\ update_app.replaced_with = Flatten(received)

\* C34: the self-updater processes at most one version-check result and
\* spawns at most one download, and only on NeedUpdate; it does not poll the
\* version-check channel once the download is spawned; update_status never
\* returns to Checking; while the window is open, a download status Error
\* (a download error or a failed replacement) is shown with the
\* proceed-to-launcher button.
C34_OneCheckOneDownload ==
    /\ [](/\ update_app.checks_processed <= 1
          /\ update_app.downloads_spawned <= 1
          /\ update_app.downloads_spawned = 1 => update_app.update_status = "NeedUpdate"
          /\ ~update_app.polled_after_spawn
          /\ (update_app.download_status = "Error" /\ update_app.window # "exited")
                => update_app.rendered = "download_error_and_close_button")
    /\ [][/\ update_app.update_status # "Checking"
             => update_app'.update_status = update_app.update_status
          /\ update_app.download_status = "Error"
             => /\ update_app'.download_status = "Error"
                /\ update_app'.downloads_spawned = update_app.downloads_spawned
         ]_vars

\* The download failed in the stream, the error was shown and the user
\* proceeded to the launcher.
C34_Witness ==
    /\ update_app.downloads_spawned = 1
    /\ single_download.result = "Err"
    /\ received # <<>>
    /\ update_app.download_status = "Error"
    /\ update_app.window = "closed"

\* C35: loading never changes the record file; when the file cannot be
\* read (missing, unreadable, no valid JSON) read_local_safe and the load
\* of the launcher give an empty record, for which no version and no
\* modpack is reported up to date; when it can be read they give what it
\* holds.
C35_LoadingNeverFails ==
    [][/\ read_local_safe
          => /\ manifest_file' = manifest_file
             /\ manifest_readable' = manifest_readable
             /\ IF manifest_readable
                   THEN versions' = manifest_file
                   ELSE /\ versions' = <<>>
                        /\ \A version_info \in VersionInfos :
                              ~VersionManifest_is_up_to_date(versions', version_info)
       /\ launcher_start
          => /\ index_file' = index_file
             /\ IF index_file.readable
                   THEN local_indexes' = index_file.data
                   ELSE /\ local_indexes' = <<>>
                        /\ \A name \in ModpackNames :
                              ~is_up_to_date(local_indexes', remote_index(name))
      ]_vars

\* Both files held records and were lost, and both programs loaded an empty
\* record.
C35_Witness ==
    /\ ~manifest_readable
    /\ manifest_file # <<>>
    /\ versions = <<>>
    /\ ~index_file.readable
    /\ index_file.data # <<>>
    /\ local_indexes = <<>>

\* C36: download_java returns an installation only when check_java passed
\* for the Java unpacked in the target directory; it asks for the zip list
\* only after the tar.gz list; when both lists are empty it returns
\* NoJavaVersionsAvailable, when the check fails InvalidDownloadedJava; and
\* the target directory changes only in a step that follows a download
\* loop that ended without error, so a download error leaves an existing
\* installation as it was.
C36_JavaOnlyAfterCheck ==
    /\ [](/\ java_download.result = "Ok"
             => /\ java_download.checked = "passed"
                /\ java_download.target_dir = "unpacked"
          /\ java_download.checked = "failed"
             => java_download.result = "InvalidDownloadedJava"
          /\ java_download.lists["zip"] # "none"
             => java_download.lists["tar.gz"] \in {"empty", "some"}
          /\ (java_download.pc = "returned"
                /\ \A t \in {"tar.gz", "zip"} : java_download.lists[t] = "empty")
             => java_download.result = "NoJavaVersionsAvailable"
          /\ java_download.result \in {"InvalidDownloadedJava", "NoJavaVersionsAvailable"}
             => java_download.pc = "returned")
    /\ [][/\ (java_download.pc # "idle"
                /\ java_download'.target_dir # java_download.target_dir)
             => /\ single_download.finished
                /\ single_download.result # "Err"
                /\ stream = <<>>
          /\ single_download.result = "Err"
             => java_download'.target_dir = java_download.target_dir
         ]_vars

\* An installation was in place, the archive was downloaded whole and the
\* Java unpacked from it passed the check.
C36_Witness ==
    /\ java_download.result = "Ok"
    /\ java_download.lists["tar.gz"] = "empty"
    /\ java_download.archive_type = "zip"
    /\ Len(received) = MaxChunks
    /\ java_download.target_dir = "unpacked"

\* C37: in the poll loop of authenticate a request is repeated only after
\* a timeout error; any other transport error and a non-success status end
\* authenticate with that error; the first successful response ends it with
\* the access token it holds; the loop ends only in one of those two ways.
C37_PollEndsWithTokenOrError ==
    [][tg_auth.pc = "poll" /\ tg_auth' # tg_auth
         => LET response == tg_auth'.last IN
            /\ tg_auth'.pc = "poll" => is_timeout(response.send)
            /\ (response.send # "Ok" /\ ~is_timeout(response.send))
                 => tg_auth'.pc = "returned" /\ tg_auth'.result = Err(response.send)
            /\ (response.send = "Ok" /\ response.status # "success")
                 => tg_auth'.pc = "returned" /\ tg_auth'.result = Err("status")
            /\ (response.send = "Ok" /\ response.status = "success")
                 => /\ tg_auth'.pc = "returned"
                    /\ tg_auth'.result.kind = "Ok"
                    /\ tg_auth'.result.value = response.body
            /\ tg_auth'.pc # "poll"
                 => \/ tg_auth'.pc = "returned" /\ tg_auth'.result.kind = "Err"
                       /\ ~is_timeout(response.send)
                       /\ (response.send # "Ok" \/ response.status # "success")
                    \/ tg_auth'.pc = "returned" /\ tg_auth'.result.kind = "Ok"
                       /\ response.status = "success"
      ]_vars

\* The second poll request is answered with status 200 and a body without
\* "user", and unwrap panics.
C37_PanicOnSuccess ==
    /\ tg_auth.pc = "panicked"
    /\ tg_auth.timeouts = 1
    /\ tg_auth.last = [send |-> "Ok", status |-> "success", body |-> "no_user"]

\* C38: get_metadata_info returns len(inherits_from) + 2 entries: the
\* parent entry (the first inherited entry, or the version itself when
\* inherits_from is empty), then every inherited entry in order, then the
\* version itself with its own id, url and sha1.
C38_MetadataInfoList ==
    metadata_info.called
      => LET self == metadata_info
             versions_info == self.versions_info
             n == Len(self.inherits_from)
         IN /\ Len(versions_info) = n + 2
            /\ versions_info[1] =
                  IF n = 0
                     THEN [id |-> self.id, url |-> self.url, sha1 |-> self.sha1]
                     ELSE self.inherits_from[1]
            /\ \A i \in 1..n : versions_info[i + 1] = self.inherits_from[i]
            /\ versions_info[n + 2].id = self.id
            /\ versions_info[n + 2].url = self.url
            /\ versions_info[n + 2].sha1 = self.sha1

\* The list of a version that inherits from MaxInherits entries, which
\* differ from each other and from the version.
C38_Witness ==
    /\ metadata_info.called
    /\ Len(metadata_info.inherits_from) = MaxInherits
    /\ Len(metadata_info.versions_info) = MaxInherits + 2
    /\ metadata_info.inherits_from[1] # metadata_info.inherits_from[MaxInherits]
    /\ metadata_info.inherits_from[1].id # metadata_info.id

====
